---- MODULE Spec2Model ----
(***************************************************************************)
(* Model of the streaming text pipeline of hireal-zypher: the sentence     *)
(* classifier and SentenceBuffer (utils/textFilter.ts), and the SSE        *)
(* orchestrator of server.ts / api/research.ts that drives them.           *)
(*                                                                         *)
(* A JavaScript string is modelled as a sequence of one-character strings, *)
(* so that trimming, regular-expression matching and slicing are computed  *)
(* character by character as the code computes them.                       *)
(***************************************************************************)
EXTENDS Integers, Sequences, FiniteSets, TLC

VARIABLES
    buffer,        \* SentenceBuffer.buffer
    markdownMode,  \* SentenceBuffer.markdownMode
    emitted,       \* the texts handed to the onSentence callback, in call order
    last,          \* the last SentenceBuffer call made by a driver, with its pre-state
    calls,         \* number of SentenceBuffer calls made by a driver
    fresh,         \* a reference instance constructed at the last reset(), given the same calls
    fullText,      \* the text a split run feeds to add(), whole
    pieces,        \* the deltas of fullText a split run has still to add
    verdict,       \* what isTransitionOnlyText returned for fullText, once it was called
    pc,            \* handleRequest: "streaming" inside the event loop, "done" after it
    closed,        \* handleRequest: let closed
    tools,         \* handleRequest: const tools (toolUseId -> toolName)
    toolInputs,    \* handleRequest: const toolInputs (toolUseId -> accumulated input)
    toolCount,     \* handleRequest: let toolCount
    keepAlive,     \* the keepAlive interval timer is set
    ctrl,          \* the stream controller: "open", "closed" (by close()) or "cancelled" (by the client)
    out,           \* the frames enqueued on the controller, in order
    nEvents,       \* number of upstream events processed
    ticks,         \* number of keepAlive timer callbacks run
    charEv,        \* for each character of upstream text received: the number of its event
    outSrc,        \* for each frame of out: the event processed when it was written, and the text it carries
    step,          \* the last step of the event loop, with the state it found
    enq,           \* the controller.enqueue calls made: whether one has thrown, and how many were made after that
    closeCalls,    \* number of controller.close() calls made
    agent,         \* the module variable agent: 0 for null, else the number of the ZypherAgent it holds
    callers,       \* for each getAgent() call: where it is, the agent it constructed and the one it returned
    inits,         \* how often each step of the initialisation has run, and how it went
    envSet,        \* the two API keys are in the environment
    reqs,          \* for each request: the closure state of its ReadableStream.start
    hist,          \* for each request: the steps taken for it, in order
    feed,          \* for each request: what its upstream and its client may still do
    http,          \* the HTTP request handleRequest serves and the response it gave
    client,        \* the ChatInterface of one turn: reader loop, line buffer and message
    call,          \* one call of a tool utility: its arguments and what came of it
    legacy         \* the closure state of the legacy handler's ReadableStream.start

sbVars == <<buffer, markdownMode>>

driverVars == <<emitted, last, calls, fresh, verdict>>

splitVars == <<fullText, pieces>>

reqVars == <<pc, closed, tools, toolInputs, toolCount, keepAlive, ctrl, out, nEvents, ticks>>

traceVars == <<charEv, outSrc, step, enq, closeCalls>>

agentVars == <<agent, callers, inits, envSet>>

streamVars == <<reqs, hist, feed>>

oneVars == <<sbVars, driverVars, splitVars, reqVars, traceVars>>

frontVars == <<http, client, call, legacy>>

vars == <<oneVars, agentVars, streamVars, frontVars>>

---------------------------------------------------------------------------
(* Characters and string helpers                                           *)

\* The characters JavaScript's \s and String.prototype.trim treat as white
\* space, restricted to the ASCII ones.
WS == {" ", "\t", "\n", "\r"}

\* [A-Z]
UpperChars ==
    {"A", "B", "C", "D", "E", "F", "G", "H", "I", "J", "K", "L", "M",
     "N", "O", "P", "Q", "R", "S", "T", "U", "V", "W", "X", "Y", "Z"}

LowerOf ==
    "A" :> "a" @@ "B" :> "b" @@ "C" :> "c" @@ "D" :> "d" @@ "E" :> "e" @@ "F" :> "f" @@
    "G" :> "g" @@ "H" :> "h" @@ "I" :> "i" @@ "J" :> "j" @@ "K" :> "k" @@ "L" :> "l" @@
    "M" :> "m" @@ "N" :> "n" @@ "O" :> "o" @@ "P" :> "p" @@ "Q" :> "q" @@ "R" :> "r" @@
    "S" :> "s" @@ "T" :> "t" @@ "U" :> "u" @@ "V" :> "v" @@ "W" :> "w" @@ "X" :> "x" @@
    "Y" :> "y" @@ "Z" :> "z"

\* Canonical form of a character for a match under the /i flag.
ToLower(c) == IF c \in DOMAIN LowerOf THEN LowerOf[c] ELSE c

SetMin(S) == CHOOSE x \in S : \A y \in S : x <= y

SetMax(S) == CHOOSE x \in S : \A y \in S : x >= y

\* String.prototype.trim
trim(s) ==
    LET keep == {i \in 1..Len(s) : s[i] \notin WS}
    IN  IF keep = {} THEN <<>> ELSE SubSeq(s, SetMin(keep), SetMax(keep))

\* String.prototype.slice(from) with a 1-based start
SliceFrom(s, from) == SubSeq(s, from, Len(s))

---------------------------------------------------------------------------
(* Sentence classifier                                                     *)

\* A pattern /^lit/i ; opt > 0 marks the character of lit that is followed
\* by ? in the source (as the comma of /^First,? I'll/i).
P(l) == [lit |-> l, opt |-> 0]

PO(l, n) == [lit |-> l, opt |-> n]

TRANSITION_START_PATTERNS == <<
    P(<<"I","'","l","l"," ","h","e","l","p"," ","y","o","u"," ","r","e","s","e","a","r","c","h">>),
    P(<<"I","'","l","l"," ","h","e","l","p"," ","y","o","u"," ","f","i","n","d">>),
    P(<<"I","'","l","l"," ","s","e","a","r","c","h">>),
    P(<<"I","'","l","l"," ","t","r","y">>),
    P(<<"I","'","l","l"," ","l","o","o","k">>),
    P(<<"I","'","l","l"," ","c","h","e","c","k">>),
    P(<<"I","'","l","l"," ","g","a","t","h","e","r">>),
    P(<<"I","'","l","l"," ","s","t","a","r","t">>),
    P(<<"L","e","t"," ","m","e"," ","s","e","a","r","c","h">>),
    P(<<"L","e","t"," ","m","e"," ","t","r","y">>),
    P(<<"L","e","t"," ","m","e"," ","l","o","o","k">>),
    P(<<"L","e","t"," ","m","e"," ","c","h","e","c","k">>),
    P(<<"L","e","t"," ","m","e"," ","f","i","n","d">>),
    P(<<"L","e","t"," ","m","e"," ","g","a","t","h","e","r">>),
    P(<<"L","e","t"," ","m","e"," ","g","e","t">>),
    P(<<"L","e","t"," ","m","e"," ","c","o","r","r","e","c","t">>),
    P(<<"L","e","t"," ","m","e"," ","f","i","x">>),
    P(<<"L","e","t"," ","m","e"," ","a","l","s","o">>),
    P(<<"L","e","t"," ","m","e"," ","s","c","r","a","p","e">>),
    P(<<"N","o","w"," ","l","e","t"," ","m","e">>),
    P(<<"N","o","w"," ","I","'","l","l">>),
    P(<<"N","o","w"," ","I"," ","w","i","l","l">>),
    PO(<<"F","i","r","s","t",","," ","I","'","l","l">>, 6),
    PO(<<"F","i","r","s","t",","," ","l","e","t"," ","m","e">>, 6),
    PO(<<"N","e","x","t",","," ","I","'","l","l">>, 5),
    PO(<<"N","e","x","t",","," ","l","e","t"," ","m","e">>, 5),
    P(<<"I"," ","f","o","u","n","d"," ","s","o","m","e">>),
    P(<<"I"," ","f","o","u","n","d"," ","s","e","v","e","r","a","l">>),
    P(<<"I"," ","f","o","u","n","d"," ","m","u","l","t","i","p","l","e">>),
    P(<<"I"," ","f","o","u","n","d"," ","t","h","e"," ","f","o","l","l","o","w","i","n","g">>),
    P(<<"I"," ","f","o","u","n","d"," ","i","n","i","t","i","a","l">>),
    P(<<"I"," ","c","a","n"," ","s","e","e">>),
    P(<<"I"," ","n","e","e","d"," ","t","o">>),
    P(<<"S","e","a","r","c","h","i","n","g"," ","f","o","r">>),
    P(<<"L","o","o","k","i","n","g"," ","f","o","r">>),
    P(<<"C","h","e","c","k","i","n","g">>),
    P(<<"G","a","t","h","e","r","i","n","g">>),
    P(<<"F","e","t","c","h","i","n","g">>),
    P(<<"G","r","e","a","t","!"," ","L","e","t"," ","m","e">>),
    P(<<"G","r","e","a","t","!"," ","I","'","l","l">>),
    P(<<"G","r","e","a","t","!"," ","N","o","w">>),
    P(<<"G","r","e","a","t","!"," ","I"," ","f","o","u","n","d">>)
>>

\* s begins with lit, compared case-insensitively
PrefixCI(lit, s) ==
    /\ Len(lit) <= Len(s)
    /\ \A i \in 1..Len(lit) : ToLower(lit[i]) = ToLower(s[i])

\* pattern.test(s) for an anchored pattern of TRANSITION_START_PATTERNS
RegexTest(pat, s) ==
    \/ PrefixCI(pat.lit, s)
    \/ /\ pat.opt > 0
       /\ PrefixCI(SubSeq(pat.lit, 1, pat.opt - 1) \o SliceFrom(pat.lit, pat.opt + 1), s)

\* isTransitionOnlyText that matches the patterns against the untrimmed text
isTransitionOnlyText_Untrimmed(text) ==
    IF text = <<>> THEN TRUE
    ELSE IF trim(text) = <<>> THEN TRUE
    ELSE \E i \in DOMAIN TRANSITION_START_PATTERNS :
            RegexTest(TRANSITION_START_PATTERNS[i], text)

isTransitionOnlyText(text) ==
    IF text = <<>> THEN TRUE
    ELSE LET trimmed == trim(text)
         IN  IF trimmed = <<>> THEN TRUE
             ELSE \E i \in DOMAIN TRANSITION_START_PATTERNS :
                     RegexTest(TRANSITION_START_PATTERNS[i], trimmed)

\* The pattern #{1,3}\s|\*\*|-  (hash run and white space, two stars, or
\* dash and a space) matched at position i of s.
MarkerAt(s, i) ==
    LET n == Len(s)
        ch(j) == IF j <= n THEN s[j] ELSE ""
    IN  \/ /\ ch(i) = "#"
           /\ \/ ch(i + 1) \in WS
              \/ /\ ch(i + 1) = "#"
                 /\ \/ ch(i + 2) \in WS
                    \/ ch(i + 2) = "#" /\ ch(i + 3) \in WS
        \/ ch(i) = "*" /\ ch(i + 1) = "*"
        \/ ch(i) = "-" /\ ch(i + 1) = " "

isMarkdownStart(text) == MarkerAt(trim(text), 1)

---------------------------------------------------------------------------
(* SentenceBuffer                                                          *)
(*                                                                         *)
(* An instance is the pair (buffer, markdownMode).  Each method is an      *)
(* operator from the instance before the call to the instance after it,    *)
(* together with the callback invocations the call makes, in order.  An    *)
(* invocation is recorded as [text, lo, hi]: the text handed to            *)
(* onSentence and the positions, in the buffer the call worked on, of its  *)
(* first and last character.                                               *)

SB(b, m) == [buffer |-> b, markdownMode |-> m]

Result(b, m, e) == [buffer |-> b, markdownMode |-> m, emitted |-> e]

Emission(t, l, h) == [text |-> t, lo |-> l, hi |-> h]

Texts(es) == [i \in 1..Len(es) |-> es[i].text]

\* Position of the first character that is not white space (0: none)
FirstInk(s) ==
    LET keep == {i \in 1..Len(s) : s[i] \notin WS}
    IN  IF keep = {} THEN 0 ELSE SetMin(keep)

\* Position of the last character that is not white space (0: none)
LastInk(s) ==
    LET keep == {i \in 1..Len(s) : s[i] \notin WS}
    IN  IF keep = {} THEN 0 ELSE SetMax(keep)

\* /^(.*?(?<![A-Z])[.!?])\s+(.*)$/s : the end of group 1, which is the
\* first terminal punctuation mark that is not preceded by an upper-case
\* letter and is followed by white space (0: the pattern does not match).
SentenceEnd(buf) ==
    LET ends == {k \in 1..(Len(buf) - 1) :
                    /\ buf[k] \in {".", "!", "?"}
                    /\ (k = 1 \/ buf[k - 1] \notin UpperChars)
                    /\ buf[k + 1] \in WS}
    IN  IF ends = {} THEN 0 ELSE SetMin(ends)

\* The start of group 2: the first position after the white space that
\* follows group 1 (Len(buf) + 1 when nothing follows it).
RestStart(buf, k) ==
    LET ink == {j \in (k + 1)..Len(buf) : buf[j] \notin WS}
    IN  IF ink = {} THEN Len(buf) + 1 ELSE SetMin(ink)

\* emitSentence with the callback invocations kept in the wrong order
emitSentence_Reversed(acc, sentence, lo, hi) ==
    IF isTransitionOnlyText(sentence) THEN acc
    ELSE <<Emission(sentence, lo, hi)>> \o acc

\* emitSentence: the invocations acc extended by the sentence unless it is
\* a transition sentence
emitSentence(acc, sentence, lo, hi) ==
    IF isTransitionOnlyText(sentence) THEN acc
    ELSE Append(acc, Emission(sentence, lo, hi))

\* processSentences on a buffer that starts off characters into the text
\* the call worked on: the remaining buffer and the invocations made.
RECURSIVE processSentencesFrom(_, _, _)
processSentencesFrom(buf, off, acc) ==
    LET k == SentenceEnd(buf)
    IN  IF k = 0 THEN [buffer |-> buf, emitted |-> acc]
        ELSE LET group1   == SubSeq(buf, 1, k)
                 sentence == trim(group1)
                 r        == RestStart(buf, k)
             IN  processSentencesFrom(
                     SliceFrom(buf, r), off + r - 1,
                     IF sentence # <<>>
                     THEN emitSentence(acc, sentence, off + FirstInk(group1), off + k)
                     ELSE acc)

processSentences(buf) == processSentencesFrom(buf, 0, <<>>)

\* flushDirect on a buffer that starts off characters into the text the
\* call worked on
flushDirect(buf, off) ==
    IF buf # <<>> THEN <<Emission(buf, off + 1, off + Len(buf))>> ELSE <<>>

\* buffer.search(/#{1,3}\s|\*\*|- /) as a 1-based position (0: no match)
MarkdownIndex(buf) ==
    LET at == {i \in 1..Len(buf) : MarkerAt(buf, i)}
    IN  IF at = {} THEN 0 ELSE SetMin(at)

\* processBuffer (prose mode) on the buffer buf
processBuffer(buf) ==
    LET p == MarkdownIndex(buf)
    IN  IF p > 1
        THEN LET beforeMarkdown == SubSeq(buf, 1, p - 1)
                 afterMarkdown  == SliceFrom(buf, p)
                 ps             == processSentences(beforeMarkdown)
             IN  Result(<<>>, TRUE, ps.emitted \o flushDirect(afterMarkdown, p - 1))
        ELSE LET ps == processSentences(buf)
             IN  Result(ps.buffer, FALSE, ps.emitted)

\* add(text) that works on the new text alone, not on buffer + text
add_Replaces(sb, text) ==
    IF sb.markdownMode \/ isMarkdownStart(text)
    THEN Result(<<>>, TRUE, flushDirect(text, 0))
    ELSE processBuffer(text)

\* add(text)
add(sb, text) ==
    LET buf == sb.buffer \o text
        md  == sb.markdownMode \/ isMarkdownStart(buf)
    IN  IF md THEN Result(<<>>, TRUE, flushDirect(buf, 0))
        ELSE processBuffer(buf)

\* flush() that clears the buffer without handing its content over
flush_Drops(sb) == Result(<<>>, FALSE, <<>>)

\* flush() that clears and resets also when nothing remains
flush_AlwaysResets(sb) ==
    LET remaining == trim(sb.buffer)
    IN  Result(<<>>, FALSE,
               IF remaining # <<>> /\ (sb.markdownMode \/ ~isTransitionOnlyText(remaining))
               THEN <<Emission(remaining, FirstInk(sb.buffer), LastInk(sb.buffer))>>
               ELSE <<>>)

\* flush() that hands the content over and leaves it in the buffer
flush_KeepsBuffer(sb) ==
    LET remaining == trim(sb.buffer)
    IN  Result(sb.buffer, sb.markdownMode,
               IF remaining # <<>> /\ (sb.markdownMode \/ ~isTransitionOnlyText(remaining))
               THEN <<Emission(remaining, FirstInk(sb.buffer), LastInk(sb.buffer))>>
               ELSE <<>>)

\* flush()
flush(sb) ==
    LET remaining == trim(sb.buffer)
    IN  IF remaining = <<>> THEN Result(sb.buffer, sb.markdownMode, <<>>)
        ELSE Result(<<>>, FALSE,
                    IF sb.markdownMode \/ ~isTransitionOnlyText(remaining)
                    THEN <<Emission(remaining, FirstInk(sb.buffer), LastInk(sb.buffer))>>
                    ELSE <<>>)

\* reset() that forgets the buffer and keeps the mode
reset_KeepsMode(sb) == Result(<<>>, sb.markdownMode, <<>>)

\* reset()
reset(sb) == Result(<<>>, FALSE, <<>>)

---------------------------------------------------------------------------
(* Tool event normalizer (utils/toolUtils.ts)                              *)

LowerChars == {LowerOf[c] : c \in UpperChars}

Digits == {"0", "1", "2", "3", "4", "5", "6", "7", "8", "9"}

\* \w
WordChars == UpperChars \cup LowerChars \cup Digits \cup {"_"}

ToUpper(c) ==
    IF c \in LowerChars THEN CHOOSE u \in UpperChars : LowerOf[u] = c ELSE c

\* String.prototype.toLowerCase
toLowerCase(s) == [i \in 1..Len(s) |-> ToLower(s[i])]

\* sub occurs in s at position i
OccursAt(s, sub, i) ==
    /\ i >= 1
    /\ i + Len(sub) - 1 <= Len(s)
    /\ \A j \in 1..Len(sub) : s[i + j - 1] = sub[j]

\* String.prototype.includes
Includes(s, sub) == \E i \in 1..(Len(s) + 1) : OccursAt(s, sub, i)

\* String.prototype.replace(sub, by) with a string pattern: the first
\* occurrence only
ReplaceFirst(s, sub, by) ==
    LET at == {i \in 1..Len(s) : OccursAt(s, sub, i)}
    IN  IF at = {} THEN s
        ELSE LET i == SetMin(at)
             IN  SubSeq(s, 1, i - 1) \o by \o SliceFrom(s, i + Len(sub))

\* String.prototype.replace(/_/g, " ")
UnderscoresToSpaces(s) == [i \in 1..Len(s) |-> IF s[i] = "_" THEN " " ELSE s[i]]

\* String.prototype.replace(/^mcp__\w+__/, ""): \w+ is greedy, so the match
\* ends at the last "__" that only word characters separate from "mcp__".
StripMcpPrefix(s) ==
    LET ends == {j \in 8..Len(s) :
                    /\ OccursAt(s, <<"m","c","p","_","_">>, 1)
                    /\ OccursAt(s, <<"_","_">>, j - 1)
                    /\ \A i \in 6..(j - 2) : s[i] \in WordChars}
    IN  IF ends = {} THEN s ELSE SliceFrom(s, SetMax(ends) + 1)

TOOL_DISPLAY_NAMES ==
    <<"m","c","p","_","_","f","i","r","e","c","r","a","w","l","_","_","f","i","r","e","c","r","a","w","l","_","s","e","a","r","c","h">> :> <<"W","e","b"," ","S","e","a","r","c","h">> @@
    <<"m","c","p","_","_","f","i","r","e","c","r","a","w","l","_","_","f","i","r","e","c","r","a","w","l","_","s","c","r","a","p","e">> :> <<"P","a","g","e"," ","S","c","r","a","p","e">> @@
    <<"m","c","p","_","_","f","i","r","e","c","r","a","w","l","_","_","f","i","r","e","c","r","a","w","l","_","c","r","a","w","l">> :> <<"S","i","t","e"," ","C","r","a","w","l">> @@
    <<"m","c","p","_","_","f","i","r","e","c","r","a","w","l","_","_","f","i","r","e","c","r","a","w","l","_","m","a","p">> :> <<"S","i","t","e"," ","M","a","p">>

PRETTY_SITE_NAMES ==
    <<"l","i","n","k","e","d","i","n">> :> <<"L","i","n","k","e","d","I","n">> @@ <<"g","i","t","h","u","b">> :> <<"G","i","t","H","u","b">> @@
    <<"t","w","i","t","t","e","r">> :> <<"T","w","i","t","t","e","r">> @@ <<"x">> :> <<"X"," ","(","T","w","i","t","t","e","r",")">> @@
    <<"f","a","c","e","b","o","o","k">> :> <<"F","a","c","e","b","o","o","k">> @@ <<"i","n","s","t","a","g","r","a","m">> :> <<"I","n","s","t","a","g","r","a","m">> @@
    <<"r","e","s","e","a","r","c","h","g","a","t","e">> :> <<"R","e","s","e","a","r","c","h","G","a","t","e">> @@ <<"s","c","h","o","l","a","r">> :> <<"G","o","o","g","l","e"," ","S","c","h","o","l","a","r">> @@
    <<"o","r","c","i","d">> :> <<"O","R","C","I","D">> @@ <<"m","e","d","i","u","m">> :> <<"M","e","d","i","u","m">> @@
    <<"s","t","a","c","k","o","v","e","r","f","l","o","w">> :> <<"S","t","a","c","k"," ","O","v","e","r","f","l","o","w">> @@ <<"r","e","d","d","i","t">> :> <<"R","e","d","d","i","t">> @@
    <<"y","o","u","t","u","b","e">> :> <<"Y","o","u","T","u","b","e">> @@ <<"w","i","k","i","p","e","d","i","a">> :> <<"W","i","k","i","p","e","d","i","a">> @@
    <<"c","r","u","n","c","h","b","a","s","e">> :> <<"C","r","u","n","c","h","b","a","s","e">> @@ <<"g","l","a","s","s","d","o","o","r">> :> <<"G","l","a","s","s","d","o","o","r">> @@
    <<"i","n","d","e","e","d">> :> <<"I","n","d","e","e","d">>

getToolDisplayName(toolName) ==
    IF toolName \in DOMAIN TOOL_DISPLAY_NAMES THEN TOOL_DISPLAY_NAMES[toolName]
    ELSE UnderscoresToSpaces(StripMcpPrefix(toolName))

prettifySiteName(domain) ==
    LET lower == toLowerCase(domain)
    IN  IF lower \in DOMAIN PRETTY_SITE_NAMES THEN PRETTY_SITE_NAMES[lower]
        ELSE IF domain = <<>> THEN <<>>
        ELSE <<ToUpper(domain[1])>> \o SliceFrom(domain, 2)

\* String.prototype.slice(0, n)
Truncate(s, n) == SubSeq(s, 1, IF Len(s) < n THEN Len(s) ELSE n)

\* JavaScript values as JSON.parse and req.json() produce them
Undefined == [t |-> "undefined"]

Null == [t |-> "null"]

Str(s) == [t |-> "string", v |-> s]

Num(n) == [t |-> "number", v |-> n]

Bool(b) == [t |-> "boolean", v |-> b]

\* An object with no field
Obj == [t |-> "object"]

\* An object with one field
ObjOf(k, x) == [t |-> "object", key |-> k, val |-> x]

\* An array with no element
Arr == [t |-> "array"]

\* !x
Falsy(x) ==
    \/ x.t \in {"undefined", "null"}
    \/ x.t = "string" /\ x.v = <<>>
    \/ x.t = "number" /\ x.v = 0
    \/ x.t = "boolean" /\ ~x.v

\* String(n) for a count below ten
DigitText(n) == <<<<"0","1","2","3","4","5","6","7","8","9">>[n + 1]>>

\* String(x)
String(x) ==
    IF x.t = "string" THEN x.v
    ELSE IF x.t = "number" THEN DigitText(x.v)
    ELSE IF x.t = "boolean" THEN (IF x.v THEN <<"t","r","u","e">> ELSE <<"f","a","l","s","e">>)
    ELSE IF x.t = "array" THEN <<>>
    ELSE IF x.t = "object" THEN <<"[","o","b","j","e","c","t"," ","O","b","j","e","c","t","]">>
    ELSE IF x.t = "null" THEN <<"n","u","l","l">>
    ELSE <<"u","n","d","e","f","i","n","e","d">>

\* x.field: reading a property of null or undefined throws a TypeError,
\* a property the value does not have reads as undefined
Get(x, field) ==
    IF x.t \in {"undefined", "null"} THEN [thrown |-> TRUE, value |-> Undefined]
    ELSE [thrown |-> FALSE,
          value  |-> IF x.t = "object" /\ "key" \in DOMAIN x /\ x.key = field
                     THEN x.val ELSE Undefined]

\* How a piece of code ends: with a return, with an exception, or by
\* running to its last statement
Returned(v) == [thrown |-> FALSE, returned |-> TRUE, value |-> v]

Thrown == [thrown |-> TRUE, returned |-> FALSE, value |-> <<>>]

FellThrough == [thrown |-> FALSE, returned |-> FALSE, value |-> <<>>]

\* Position of the first occurrence of character c in s at or after from
\* (Len(s) + 1: none)
IndexOfChar(s, c, from) ==
    LET at == {i \in from..Len(s) : s[i] = c}
    IN  IF at = {} THEN Len(s) + 1 ELSE SetMin(at)

\* The JSON texts of the model that are not a string: null, a number, an
\* empty array, an empty object
JsonLiteralTexts == {<<"n","u","l","l">>, <<"5">>, <<"0">>, <<"[","]">>, <<"{","}">>}

JsonLiteral(text) ==
    IF text = <<"n","u","l","l">> THEN Null
    ELSE IF text = <<"5">> THEN Num(5)
    ELSE IF text = <<"0">> THEN Num(0)
    ELSE IF text = <<"[","]">> THEN Arr
    ELSE Obj

\* JSON.parse on the tool inputs of the model, written without white
\* space.  One of the literal texts parses to its value; a text
\* {"key":"value"}, with no quote or backslash inside key and value, parses
\* to an object with that one string field, and a text {"key":literal} to
\* an object whose field holds the literal's value; on every other text of
\* the model (a truncated text, a repeated fragment) JSON.parse throws.
JsonParse(input) ==
    LET n   == Len(input)
        k2  == IndexOfChar(input, "\"", 3)
        v2  == IndexOfChar(input, "\"", k2 + 3)
        key == /\ OccursAt(input, << "{", "\"" >>, 1)
               /\ k2 <= n
               /\ input[n] = "}"
               /\ \A i \in 1..n : input[i] # "\\"
        str == /\ key
               /\ OccursAt(input, << "\"", ":", "\"" >>, k2)
               /\ v2 = n - 1
        lit == /\ key
               /\ OccursAt(input, << "\"", ":" >>, k2)
               /\ SubSeq(input, k2 + 2, n - 1) \in JsonLiteralTexts
    IN  IF input \in JsonLiteralTexts THEN [ok |-> TRUE, value |-> JsonLiteral(input)]
        ELSE IF str
        THEN [ok |-> TRUE, value |-> ObjOf(SubSeq(input, 3, k2 - 1), Str(SubSeq(input, k2 + 3, v2 - 1)))]
        ELSE IF lit
        THEN [ok |-> TRUE, value |-> ObjOf(SubSeq(input, 3, k2 - 1), JsonLiteral(SubSeq(input, k2 + 2, n - 1)))]
        ELSE [ok |-> FALSE, value |-> Undefined]

\* new URL(url).hostname on the urls of the model: an http or https url
\* with a non-empty host of letters, digits, dots and dashes has that host,
\* lower-cased; a text with no scheme or no host makes the constructor
\* throw.
UrlHost(url) ==
    LET start == IF OccursAt(url, <<"h","t","t","p","s",":","/","/">>, 1) THEN 9
                 ELSE IF OccursAt(url, <<"h","t","t","p",":","/","/">>, 1) THEN 8 ELSE 0
        stop  == IndexOfChar(url, "/", start)
        host  == SubSeq(url, start, stop - 1)
        ok    == /\ start > 0
                 /\ host # <<>>
                 /\ \A i \in 1..Len(host) :
                       host[i] \in (WordChars \ {"_"}) \cup {".", "-"}
    IN  IF ok THEN [ok |-> TRUE, hostname |-> toLowerCase(host)]
        ELSE [ok |-> FALSE, hostname |-> <<>>]

MaxDetail == 30

extractSiteNameFromUrl(url) ==
    LET u == UrlHost(url)
    IN  IF u.ok
        THEN LET host   == ReplaceFirst(u.hostname, <<"w","w","w",".">>, <<>>)
                 domain == SubSeq(host, 1, IndexOfChar(host, ".", 1) - 1)
             IN  prettifySiteName(domain)
        ELSE Truncate(url, MaxDetail)

\* The try block of extractToolDetail: JSON.parse throws on a text that is
\* not JSON, parsed.query and parsed.url throw when parsed is null
extractToolDetailTry(toolName, input) ==
    LET parsed   == JsonParse(input)
        isSearch == Includes(toolName, <<"s","e","a","r","c","h">>)
        isScrape == Includes(toolName, <<"s","c","r","a","p","e">>) \/ Includes(toolName, <<"c","r","a","w","l">>)
        query    == Get(parsed.value, <<"q","u","e","r","y">>)
        url      == Get(parsed.value, <<"u","r","l">>)
        text     == String(query.value)
    IN  IF ~parsed.ok THEN Thrown
        ELSE IF isSearch /\ query.thrown THEN Thrown
        ELSE IF isSearch /\ ~Falsy(query.value)
        THEN Returned(IF Len(text) > MaxDetail
                      THEN Truncate(text, MaxDetail) \o <<".",".",".">>
                      ELSE text)
        ELSE IF isScrape /\ url.thrown THEN Thrown
        ELSE IF isScrape /\ ~Falsy(url.value)
        THEN Returned(extractSiteNameFromUrl(String(url.value)))
        ELSE FellThrough

\* catch { return "" } with the catch clause left out
Catch_Rethrows(body) == body

\* catch { return "" }
Catch(body) == IF body.thrown THEN Returned(<<>>) ELSE body

\* What is left of the function after the try statement: return ""
AfterTry(body) == IF body.thrown \/ body.returned THEN body ELSE Returned(<<>>)

\* How a call of extractToolDetail ends (the set over raw takes the value
\* of the argument once)
extractToolDetailOutcome(toolName, input) ==
    IF input = <<>> THEN Returned(<<>>)
    ELSE CHOOSE outcome \in {AfterTry(Catch(extractToolDetailTry(toolName, raw))) : raw \in {input}} : TRUE

extractToolDetail(toolName, input) == extractToolDetailOutcome(toolName, input).value

\* simplifyToolError with the "not found" test ahead of the timeout test
simplifyToolError_NotFoundFirst(error) ==
    LET e == toLowerCase(error)
    IN  IF Includes(e, <<"n","o","t"," ","f","o","u","n","d">>) \/ Includes(e, <<"4","0","4">>) THEN <<"P","a","g","e"," ","n","o","t"," ","f","o","u","n","d">>
        ELSE IF Includes(e, <<"t","i","m","e","o","u","t">>) \/ Includes(e, <<"t","i","m","e","d"," ","o","u","t">>) THEN <<"R","e","q","u","e","s","t"," ","t","i","m","e","d"," ","o","u","t",","," ","r","e","t","r","y","i","n","g">>
        ELSE <<"A","n"," ","e","r","r","o","r"," ","o","c","c","u","r","r","e","d",","," ","r","e","t","r","y","i","n","g">>

simplifyToolError(error) ==
    LET e == toLowerCase(error)
    IN  IF Includes(e, <<"n","o","t"," ","c","u","r","r","e","n","t","l","y"," ","s","u","p","p","o","r","t","e","d">>) THEN <<"S","o","u","r","c","e"," ","n","o","t"," ","s","u","p","p","o","r","t","e","d">>
        ELSE IF Includes(e, <<"p","a","r","a","m","e","t","e","r"," ","v","a","l","i","d","a","t","i","o","n">>) THEN <<"R","e","t","r","y","i","n","g"," ","w","i","t","h"," ","a","d","j","u","s","t","e","d"," ","p","a","r","a","m","e","t","e","r","s">>
        ELSE IF Includes(e, <<"t","i","m","e","o","u","t">>) \/ Includes(e, <<"t","i","m","e","d"," ","o","u","t">>) THEN <<"R","e","q","u","e","s","t"," ","t","i","m","e","d"," ","o","u","t",","," ","r","e","t","r","y","i","n","g">>
        ELSE IF Includes(e, <<"r","a","t","e"," ","l","i","m","i","t">>) THEN <<"T","o","o"," ","m","a","n","y"," ","r","e","q","u","e","s","t","s">>
        ELSE IF Includes(e, <<"n","o","t"," ","f","o","u","n","d">>) \/ Includes(e, <<"4","0","4">>) THEN <<"P","a","g","e"," ","n","o","t"," ","f","o","u","n","d">>
        ELSE IF Includes(e, <<"f","o","r","b","i","d","d","e","n">>) \/ Includes(e, <<"4","0","3">>) THEN <<"A","c","c","e","s","s"," ","d","e","n","i","e","d">>
        ELSE IF Includes(e, <<"u","n","a","u","t","h","o","r","i","z","e","d">>) \/ Includes(e, <<"4","0","1">>) THEN <<"A","u","t","h","o","r","i","z","a","t","i","o","n"," ","r","e","q","u","i","r","e","d">>
        ELSE <<"A","n"," ","e","r","r","o","r"," ","o","c","c","u","r","r","e","d",","," ","r","e","t","r","y","i","n","g">>

buildToolDisplayWithDetail(toolName, input) ==
    LET baseName == getToolDisplayName(toolName)
        detail   == extractToolDetail(toolName, input)
    IN  IF detail # <<>> THEN baseName \o <<":"," ">> \o detail ELSE baseName

---------------------------------------------------------------------------
(* A SentenceBuffer instance under arbitrary calls                         *)

MaxCalls == 4

Chunks ==
    { <<"H","i","."," ">>, <<"Y","o">>, <<" ">>, <<"#"," ","T">>, <<"a"," ","*","*","b">>, <<"C","h","e","c","k","i","n","g"," ","x","."," ">>, <<"C","h","e","c","k","i","n","g">>, <<"-"," ">> }

\* before: the call made before this one
NoCall ==
    [op |-> "new", text |-> <<>>, pre |-> SB(<<>>, FALSE), now |-> <<>>, before |-> "new"]

Call(o, t, r) ==
    [op |-> o, text |-> t, pre |-> SB(buffer, markdownMode), now |-> Texts(r.emitted),
     before |-> last.op]

\* The reference instance: what a newly constructed SentenceBuffer has
\* emitted (ref) under the calls made since the last reset(), next to what
\* the instance itself has emitted since then (own).
\* was: the instance as the reset() found it.
FreshFrom(pre) == [sb |-> SB(<<>>, FALSE), ref |-> <<>>, own |-> <<>>, was |-> pre]

Fresh == FreshFrom(SB(<<>>, FALSE))

FreshAfter(rf, r) ==
    [sb  |-> SB(rf.buffer, rf.markdownMode),
     ref |-> fresh.ref \o Texts(rf.emitted),
     own |-> fresh.own \o Texts(r.emitted),
     was |-> fresh.was]

\* The variables of getAgent and of the concurrent requests in a run that
\* has neither
NoAgent ==
    /\ agent = 0
    /\ callers = <<>>
    /\ inits = <<>>
    /\ envSet = TRUE

NoStreams ==
    /\ reqs = <<>>
    /\ hist = <<>>
    /\ feed = <<>>

\* No HTTP request served
NoHttp == http = [pc |-> "none"]

\* The variables of the request front, of the client and of the tool
\* utilities in a run that has none of them
NoLegacy == legacy = <<>>

NoFront ==
    /\ NoHttp
    /\ client = <<>>
    /\ call = <<>>
    /\ NoLegacy

\* The request variables of a run that serves no request
NoRequest ==
    /\ verdict = [done |-> FALSE, value |-> FALSE]
    /\ pc = "done"
    /\ closed = TRUE
    /\ tools = <<>>
    /\ toolInputs = <<>>
    /\ toolCount = 0
    /\ keepAlive = FALSE
    /\ ctrl = "closed"
    /\ out = <<>>
    /\ nEvents = 0
    /\ ticks = 0
    /\ charEv = <<>>
    /\ outSrc = <<>>
    /\ step = [kind |-> "none"]
    /\ enq = [failed |-> FALSE, sendFailed |-> FALSE, late |-> 0]
    /\ closeCalls = 0

\* The variables of the SentenceBuffer drivers and of the single request in
\* a run that uses neither
AtRest ==
    /\ NoRequest
    /\ buffer = <<>>
    /\ markdownMode = FALSE
    /\ emitted = <<>>
    /\ last = NoCall
    /\ calls = 0
    /\ fresh = Fresh
    /\ fullText = <<>>
    /\ pieces = <<>>

InitSB ==
    /\ NoRequest
    /\ NoAgent
    /\ NoStreams
    /\ NoFront
    /\ buffer = <<>>
    /\ markdownMode = FALSE
    /\ emitted = <<>>
    /\ last = NoCall
    /\ calls = 0
    /\ fresh = Fresh
    /\ fullText = <<>>
    /\ pieces = <<>>

Apply(r) ==
    /\ buffer' = r.buffer
    /\ markdownMode' = r.markdownMode
    /\ emitted' = emitted \o Texts(r.emitted)

SBAdd ==
    /\ calls < MaxCalls
    /\ \E text \in Chunks :
          LET r == add(SB(buffer, markdownMode), text)
          IN  /\ Apply(r)
              /\ last' = Call("add", text, r)
              /\ fresh' = FreshAfter(add(fresh.sb, text), r)
    /\ calls' = calls + 1
    /\ UNCHANGED <<splitVars, verdict, reqVars, traceVars, agentVars, streamVars, frontVars>>

SBFlush ==
    /\ calls < MaxCalls
    /\ LET r == flush(SB(buffer, markdownMode))
       IN  /\ Apply(r)
           /\ last' = Call("flush", <<>>, r)
           /\ fresh' = FreshAfter(flush(fresh.sb), r)
    /\ calls' = calls + 1
    /\ UNCHANGED <<splitVars, verdict, reqVars, traceVars, agentVars, streamVars, frontVars>>

SBReset ==
    /\ calls < MaxCalls
    /\ LET r == reset(SB(buffer, markdownMode))
       IN  /\ Apply(r)
           /\ last' = Call("reset", <<>>, r)
    /\ fresh' = FreshFrom(SB(buffer, markdownMode))
    /\ calls' = calls + 1
    /\ UNCHANGED <<splitVars, verdict, reqVars, traceVars, agentVars, streamVars, frontVars>>

NextSB == SBAdd \/ SBFlush \/ SBReset

SpecSB == InitSB /\ [][NextSB]_vars

---------------------------------------------------------------------------
(* A text fed to one instance in deltas, then flushed                      *)

MaxCuts == 2

DrSmith == <<"D","r","."," ","S","m","i","t","h"," ","a","r","r","i","v","e","d","."," ">>

SplitTexts ==
    { DrSmith, <<"H","i","."," ","Y","o",".">>, <<"H","i","."," "," ","Y","o">>, <<" ","H","i","!"," ","C","h","e","c","k","i","n","g"," ","x","."," ","Y","o","?"," ">>, <<"J","."," ","D","o","e"," ","w","a","s","."," ","N","o">> }

\* The sets of at most MaxCuts cut positions inside a text of length n
CutSets(n) == {c \in SUBSET (1..(n - 1)) : Cardinality(c) <= MaxCuts}

\* The deltas of s cut after each position of cuts
RECURSIVE SplitAt(_, _, _)
SplitAt(s, cuts, from) ==
    LET later == {c \in cuts : c >= from}
    IN  IF later = {} THEN <<SubSeq(s, from, Len(s))>>
        ELSE LET c == SetMin(later)
             IN  <<SubSeq(s, from, c)>> \o SplitAt(s, cuts, c + 1)

RECURSIVE Flatten(_)
Flatten(ss) == IF ss = <<>> THEN <<>> ELSE Head(ss) \o Flatten(Tail(ss))

InitSplit ==
    /\ NoRequest
    /\ NoAgent
    /\ NoStreams
    /\ NoFront
    /\ buffer = <<>>
    /\ markdownMode = FALSE
    /\ emitted = <<>>
    /\ last = NoCall
    /\ calls = 0
    /\ fresh = Fresh
    /\ fullText \in SplitTexts
    /\ \E cuts \in CutSets(Len(fullText)) : pieces = SplitAt(fullText, cuts, 1)

SplitAdd ==
    /\ pieces # <<>>
    /\ LET r == add(SB(buffer, markdownMode), Head(pieces))
       IN  /\ Apply(r)
           /\ last' = Call("add", Head(pieces), r)
    /\ pieces' = Tail(pieces)
    /\ calls' = calls + 1
    /\ UNCHANGED <<fresh, fullText, verdict, reqVars, traceVars, agentVars, streamVars, frontVars>>

SplitFlush ==
    /\ pieces = <<>>
    /\ last.op # "flush"
    /\ LET r == flush(SB(buffer, markdownMode))
       IN  /\ Apply(r)
           /\ last' = Call("flush", <<>>, r)
    /\ calls' = calls + 1
    /\ UNCHANGED <<fresh, fullText, pieces, verdict, reqVars, traceVars, agentVars, streamVars, frontVars>>

SplitDone == pieces = <<>> /\ last.op = "flush"

NextSplit == SplitAdd \/ SplitFlush

SpecSplit == InitSplit /\ [][NextSplit]_vars

---------------------------------------------------------------------------
(* isTransitionOnlyText on one text                                        *)

MaxPad == 1

\* String.prototype.toUpperCase
toUpperCase(s) == [i \in 1..Len(s) |-> ToUpper(s[i])]

\* The white-space strings of at most n characters
RECURSIVE Pads(_)
Pads(n) ==
    IF n = 0 THEN {<<>>}
    ELSE Pads(n - 1) \cup {Append(p, w) : p \in {q \in Pads(n - 1) : Len(q) = n - 1}, w \in WS}

\* Texts that begin as a transition pattern begins, texts that nearly do,
\* and the texts of the documented examples
SampleTexts ==
    {TRANSITION_START_PATTERNS[i].lit : i \in DOMAIN TRANSITION_START_PATTERNS} \cup
    { <<>>, <<"L","e","t"," ","m","e"," ","s","e","a","r","c","h"," ","f","o","r"," ","t","h","a","t",".">>, <<"J","o","h","n"," ","S","m","i","t","h"," ","w","a","s"," ","b","o","r","n"," ","i","n"," ","1","9","9","0",".">>,
      <<"F","i","r","s","t"," ","I","'","l","l">>, <<"N","e","x","t"," ","l","e","t"," ","m","e">>, <<"F","i","r","s","t",",",","," ","I","'","l","l">>, <<"W","e","l","l",","," ","l","e","t"," ","m","e"," ","s","e","a","r","c","h">>,
      <<"L","e","t"," ","m","e">>, <<"L","e","t"," ","m","e","s","e","a","r","c","h">>, <<"I","'","l"," ","s","e","a","r","c","h">>, <<"C","h","e","c","k","i","n">>, <<"I"," ","f","o","u","n","d"," ","i","t">>, <<"G","r","e","a","t","!"," ","S","o">> }

SampleTails == { <<>>, <<" ","x",".">> }

TransInputs ==
    {pad \o body \o tail :
        pad \in Pads(MaxPad),
        body \in SampleTexts \cup {toLowerCase(s) : s \in SampleTexts}
                             \cup {toUpperCase(s) : s \in SampleTexts},
        tail \in SampleTails}

InitTrans ==
    /\ NoRequest
    /\ NoAgent
    /\ NoStreams
    /\ NoFront
    /\ buffer = <<>>
    /\ markdownMode = FALSE
    /\ emitted = <<>>
    /\ last = NoCall
    /\ calls = 0
    /\ fresh = Fresh
    /\ pieces = <<>>
    /\ fullText \in TransInputs

Classify ==
    /\ ~verdict.done
    /\ verdict' = [done |-> TRUE, value |-> isTransitionOnlyText(fullText)]
    /\ UNCHANGED <<sbVars, emitted, last, calls, fresh, splitVars, reqVars, traceVars, agentVars, streamVars, frontVars>>

NextTrans == Classify

SpecTrans == InitTrans /\ [][NextTrans]_vars

---------------------------------------------------------------------------
(* Properties of the SentenceBuffer                                        *)

\* The input minus its transition sentences: each sentence that
\* isTransitionOnlyText matches is removed with the white space after it,
\* everything else is kept as it was written.
RECURSIVE MinusTransitionSentences(_)
MinusTransitionSentences(s) ==
    LET k == SentenceEnd(s)
    IN  IF k = 0 THEN (IF isTransitionOnlyText(s) THEN <<>> ELSE s)
        ELSE LET r == RestStart(s, k)
             IN  (IF isTransitionOnlyText(SubSeq(s, 1, k)) THEN <<>>
                  ELSE SubSeq(s, 1, r - 1))
                 \o MinusTransitionSentences(SliceFrom(s, r))

\* C5: for a text without Markdown marker, added in any deltas and then
\* flushed, the emitted sentences and the flush remainder, concatenated in
\* order, are the input text minus its transition-only sentences.
C5_EmissionsReconstructInput ==
    (SplitDone /\ MarkdownIndex(fullText) = 0)
        => Flatten(emitted) = MinusTransitionSentences(fullText)

\* C6: "Dr. Smith arrived." followed by white space, added in one or
\* several deltas, is emitted as the one sentence "Dr. Smith arrived.",
\* and "Dr." is never emitted as a sentence of its own.
C6_NoSplitAfterDr ==
    fullText = DrSmith
        => /\ \A i \in 1..Len(emitted) : emitted[i] # <<"D","r",".">>
           /\ SplitDone => emitted = << <<"D","r","."," ","S","m","i","t","h"," ","a","r","r","i","v","e","d",".">> >>

\* C7: an instance in Markdown mode stays in Markdown mode under add() and
\* flush(), and an add(t) with non-empty t in Markdown mode hands exactly t
\* to the callback.
C7_MarkdownModeSticky ==
    (last.op \in {"add", "flush"} /\ last.pre.markdownMode)
        => /\ markdownMode
           /\ (last.op = "add" /\ last.text # <<>>) => last.now = <<last.text>>

\* C7 witness: flush() was called on an instance in Markdown mode, and a
\* later add() of a text holding a sentence boundary went through verbatim.
C7_Witness ==
    /\ last.op = "add"
    /\ last.pre.markdownMode
    /\ SentenceEnd(last.text) > 0
    /\ last.now = <<last.text>>
    /\ last.before = "flush"

\* C8: flush() emits the trimmed remaining content iff it is non-empty and
\* the mode is Markdown or the content is no transition text, and always
\* leaves the buffer empty and the mode prose.
C8_FlushEmitsClearsResets ==
    last.op = "flush"
        => LET remaining == trim(last.pre.buffer)
           IN  /\ last.now =
                     IF /\ remaining # <<>>
                        /\ (last.pre.markdownMode \/ ~isTransitionOnlyText(remaining))
                     THEN <<remaining>> ELSE <<>>
               /\ buffer = <<>>
               /\ markdownMode = FALSE

\* C9: reset() makes no callback invocation and leaves an empty buffer in
\* prose mode; from then on the instance emits what a newly constructed
\* SentenceBuffer emits under the same calls.
C9_ResetLikeFresh ==
    /\ last.op = "reset" => (buffer = <<>> /\ ~markdownMode /\ last.now = <<>>)
    /\ SB(buffer, markdownMode) = fresh.sb
    /\ fresh.own = fresh.ref

\* C9 witness: reset() found the instance in Markdown mode, and a later
\* add() split its text into sentences.
C9_Witness ==
    /\ fresh.was.markdownMode
    /\ last.op = "add"
    /\ last.now = << <<"H","i",".">> >>

---------------------------------------------------------------------------
(* The SSE orchestrator: handleRequest's ReadableStream.start (server.ts)  *)
(* and the handler of api/research.ts, which has the same body.            *)
(*                                                                         *)
(* One request.  Each iteration of the for-await loop is one step: the     *)
(* body of a switch case has no await, so the timer callback and a client  *)
(* disconnect happen between iterations.  The timestamp of a frame and the *)
(* duration of the complete frame are left out of the frames.              *)

MaxEvents == 3

MaxTicks == 1

ToolIds == {"t1"}

ToolNames == { <<"m","c","p","_","_","f","i","r","e","c","r","a","w","l","_","_","f","i","r","e","c","r","a","w","l","_","s","e","a","r","c","h">> }

PartialInputs == { <<"{","\"","q","u","e","r","y","\"",":","\"","a","b","\"","}">> }

ToolErrors == { <<"R","e","q","u","e","s","t"," ","t","i","m","e","d"," ","o","u","t"," ","a","f","t","e","r"," ","3","0","s">> }

TextDeltas == { <<"Y","o">>, <<"a","."," ","b","."," ">>, <<"#"," ","T">> }

ErrorMessages == { <<"b","o","o","m">> }

DataCategories ==
    {"assistant_text", "tool_start", "tool_complete", "tool_error", "complete", "error"}

TerminalCategories == {"complete", "error"}

\* createEvent(category, data)
TextFrame(s) == [category |-> "assistant_text", content |-> s]

ToolStartFrame(id, name, display) ==
    [category |-> "tool_start", toolId |-> id, toolName |-> name, displayName |-> display]

ToolCompleteFrame(id) == [category |-> "tool_complete", toolId |-> id]

ToolErrorFrame(id, msg) == [category |-> "tool_error", toolId |-> id, message |-> msg]

CompleteFrame(n) == [category |-> "complete", toolsUsed |-> n]

ErrorFrame(msg) == [category |-> "error", message |-> msg]

\* ": keepalive\n\n"
KeepAliveFrame == [category |-> "keepalive"]

\* Map.set, Map.delete, Map.get(k) || ""
MapSet(m, k, v) == [x \in DOMAIN m \cup {k} |-> IF x = k THEN v ELSE m[x]]

MapDelete(m, k) == [x \in DOMAIN m \ {k} |-> m[x]]

MapGetOrEmpty(m, k) == IF k \in DOMAIN m THEN m[k] ELSE <<>>

\* The part of the closure state that send and close work on
Chan(c, o) == [closed |-> c, out |-> o]

\* send(evt): nothing when closed; controller.enqueue throws unless the
\* controller is open, and the catch sets closed.
send(ch, evt) ==
    IF ch.closed THEN ch
    ELSE IF ctrl = "open" THEN Chan(FALSE, Append(ch.out, evt))
    ELSE Chan(TRUE, ch.out)

\* The SentenceBuffer callback, for each invocation of one call in turn
RECURSIVE sendSentences(_, _)
sendSentences(ch, es) ==
    IF es = <<>> THEN ch
    ELSE sendSentences(send(ch, TextFrame(Head(es).text)), Tail(es))

\* close(): controller.close() unless closed (it throws, and is caught,
\* when the client has cancelled the stream); then closed is set.
CloseCtrl(ch) == IF ~ch.closed /\ ctrl = "open" THEN "closed" ELSE ctrl

\* What the frames written by one step are traced to: the number of the
\* event processed, and for an assistant_text frame the first and last
\* character it carries, counted over all upstream text received.
TextSrc(ev, base, es) == [i \in 1..Len(es) |-> [ev |-> ev, lo |-> base + es[i].lo, hi |-> base + es[i].hi]]

OtherSrc(ev) == [ev |-> ev, lo |-> 0, hi |-> 0]

\* The record of the enqueue calls after one more call that threw or not:
\* failed once a call has thrown, sendFailed once a call made by send has
\* thrown, late the number of calls made after the first one that threw.
Enqueued(e, threw, bySend) ==
    [failed     |-> e.failed \/ threw,
     sendFailed |-> e.sendFailed \/ (threw /\ bySend),
     late       |-> IF e.failed THEN e.late + 1 ELSE e.late]

\* The record after n send() calls in a row, the first of them finding the
\* flag closed = c: none enqueues when closed; on an open controller each
\* enqueues; otherwise the first enqueue throws and sets closed.
AfterSends(e, c, n) ==
    IF c \/ n = 0 THEN e
    ELSE IF ctrl = "open" THEN [e EXCEPT !.late = IF e.failed THEN e.late + n ELSE e.late]
    ELSE Enqueued(e, TRUE, TRUE)

\* out and closed after a step that called send() once for each element of
\* srcs, with the trace of the frames it wrote
Written(ch, srcs) ==
    /\ out' = ch.out
    /\ closed' = ch.closed
    /\ outSrc' = IF Len(ch.out) > Len(out) THEN outSrc \o srcs ELSE outSrc
    /\ enq' = AfterSends(enq, closed, Len(srcs))

\* A clearInterval that leaves the timer set
clearInterval_LeavesSet(timer) == timer

\* clearInterval(keepAlive): the timer is no longer set
clearInterval(timer) == FALSE

\* close() without its test of closed
CloseCalls_Unguarded(ch) == closeCalls + 1

\* close(): the number of controller.close() calls after it
CloseCalls(ch) == IF ~ch.closed THEN closeCalls + 1 ELSE closeCalls

StepRecord(kind) ==
    [kind |-> kind, buffer |-> buffer, markdownMode |-> markdownMode,
     outLen |-> Len(out), writable |-> (~closed /\ ctrl = "open")]

Init ==
    /\ buffer = <<>>
    /\ markdownMode = FALSE
    /\ emitted = <<>>
    /\ last = NoCall
    /\ calls = 0
    /\ fresh = Fresh
    /\ fullText = <<>>
    /\ pieces = <<>>
    /\ verdict = [done |-> FALSE, value |-> FALSE]
    /\ pc = "streaming"
    /\ closed = FALSE
    /\ tools = <<>>
    /\ toolInputs = <<>>
    /\ toolCount = 0
    /\ keepAlive = TRUE
    /\ ctrl = "open"
    /\ out = <<>>
    /\ nEvents = 0
    /\ ticks = 0
    /\ charEv = <<>>
    /\ outSrc = <<>>
    /\ step = [kind |-> "none"]
    /\ enq = [failed |-> FALSE, sendFailed |-> FALSE, late |-> 0]
    /\ closeCalls = 0
    /\ NoAgent
    /\ NoStreams
    /\ NoFront

\* One more upstream event is taken from the iterator
NextEvent(kind) ==
    /\ pc = "streaming"
    /\ nEvents < MaxEvents
    /\ nEvents' = nEvents + 1
    /\ step' = StepRecord(kind)
    /\ UNCHANGED <<pc, keepAlive, ctrl, ticks, closeCalls, driverVars, splitVars, agentVars, streamVars, frontVars>>

\* case "text"
OnText ==
    /\ NextEvent("text")
    /\ \E content \in TextDeltas :
          IF content # <<>>
          THEN LET r    == add(SB(buffer, markdownMode), content)
                   base == Len(charEv) - Len(buffer)
               IN  /\ buffer' = r.buffer
                   /\ markdownMode' = r.markdownMode
                   /\ charEv' = charEv \o [i \in 1..Len(content) |-> nEvents + 1]
                   /\ Written(sendSentences(Chan(closed, out), r.emitted),
                              TextSrc(nEvents + 1, base, r.emitted))
          ELSE UNCHANGED <<sbVars, charEv, out, closed, outSrc, enq>>
    /\ UNCHANGED <<tools, toolInputs, toolCount>>

\* case "tool_use" that announces the tool at once: it sends the tool_start
\* frame, with the display name of the tool alone
OnToolUse_Announces ==
    /\ NextEvent("tool_use")
    /\ \E id \in ToolIds, name \in ToolNames :
          /\ toolCount' = toolCount + 1
          /\ tools' = MapSet(tools, id, name)
          /\ toolInputs' = MapSet(toolInputs, id, <<>>)
          /\ Written(send(Chan(closed, out), ToolStartFrame(id, name, getToolDisplayName(name))),
                     <<OtherSrc(nEvents + 1)>>)
    /\ UNCHANGED <<sbVars, charEv>>

\* case "tool_use"
OnToolUse ==
    /\ NextEvent("tool_use")
    /\ \E id \in ToolIds, name \in ToolNames :
          IF id # ""
          THEN /\ toolCount' = toolCount + 1
               /\ tools' = MapSet(tools, id, name)
               /\ toolInputs' = MapSet(toolInputs, id, <<>>)
          ELSE UNCHANGED <<tools, toolInputs, toolCount>>
    /\ UNCHANGED <<sbVars, charEv, out, closed, outSrc, enq>>

\* case "tool_use_input"
OnToolUseInput ==
    /\ NextEvent("tool_use_input")
    /\ \E id \in ToolIds, partialInput \in PartialInputs :
          LET current == MapGetOrEmpty(toolInputs, id)
          IN  toolInputs' = MapSet(toolInputs, id, current \o partialInput)
    /\ UNCHANGED <<sbVars, charEv, out, closed, outSrc, enq, tools, toolCount>>

\* case "tool_use_approved"
OnToolUseApproved ==
    /\ NextEvent("tool_use_approved")
    /\ \E id \in ToolIds, name \in ToolNames :
          LET input       == MapGetOrEmpty(toolInputs, id)
              displayName == buildToolDisplayWithDetail(name, input)
          IN  Written(send(Chan(closed, out), ToolStartFrame(id, name, displayName)),
                      <<OtherSrc(nEvents + 1)>>)
    /\ UNCHANGED <<sbVars, charEv, tools, toolInputs, toolCount>>

\* case "tool_use_result"
OnToolUseResult ==
    /\ NextEvent("tool_use_result")
    /\ \E id \in ToolIds :
          /\ Written(send(Chan(closed, out), ToolCompleteFrame(id)),
                     <<OtherSrc(nEvents + 1)>>)
          /\ tools' = MapDelete(tools, id)
          /\ toolInputs' = MapDelete(toolInputs, id)
    /\ UNCHANGED <<sbVars, charEv, toolCount>>

\* case "tool_use_error" handled as the catch block handles a thrown error:
\* the frame, then close()
OnToolUseError_Fatal ==
    /\ pc = "streaming"
    /\ nEvents < MaxEvents
    /\ nEvents' = nEvents + 1
    /\ step' = StepRecord("tool_use_error")
    /\ \E id \in ToolIds, error \in ToolErrors :
          LET ch == send(Chan(closed, out), ToolErrorFrame(id, simplifyToolError(error)))
          IN  /\ Written(Chan(TRUE, ch.out), <<OtherSrc(nEvents + 1)>>)
              /\ ctrl' = CloseCtrl(ch)
              /\ closeCalls' = CloseCalls(ch)
              /\ tools' = MapDelete(tools, id)
              /\ toolInputs' = MapDelete(toolInputs, id)
    /\ keepAlive' = FALSE
    /\ pc' = "done"
    /\ UNCHANGED <<sbVars, charEv, toolCount, ticks, driverVars, splitVars, agentVars, streamVars, frontVars>>

\* case "tool_use_error"
OnToolUseError ==
    /\ NextEvent("tool_use_error")
    /\ \E id \in ToolIds, error \in ToolErrors :
          /\ Written(send(Chan(closed, out), ToolErrorFrame(id, simplifyToolError(error))),
                     <<OtherSrc(nEvents + 1)>>)
          /\ tools' = MapDelete(tools, id)
          /\ toolInputs' = MapDelete(toolInputs, id)
    /\ UNCHANGED <<sbVars, charEv, toolCount>>

\* case "completed"
OnCompleted ==
    /\ NextEvent("completed")
    /\ LET r    == flush(SB(buffer, markdownMode))
           base == Len(charEv) - Len(buffer)
           ch   == sendSentences(Chan(closed, out), r.emitted)
       IN  /\ buffer' = r.buffer
           /\ markdownMode' = r.markdownMode
           /\ Written(send(ch, CompleteFrame(toolCount)),
                      TextSrc(nEvents + 1, base, r.emitted) \o <<OtherSrc(nEvents + 1)>>)
    /\ UNCHANGED <<charEv, tools, toolInputs, toolCount>>

\* The iterator is done: the statements after the loop
UpstreamEnd ==
    /\ pc = "streaming"
    /\ LET r    == flush(SB(buffer, markdownMode))
           base == Len(charEv) - Len(buffer)
           ch   == sendSentences(Chan(closed, out), r.emitted)
       IN  /\ buffer' = r.buffer
           /\ markdownMode' = r.markdownMode
           /\ Written(Chan(TRUE, ch.out), TextSrc(nEvents + 1, base, r.emitted))
           /\ ctrl' = CloseCtrl(ch)
           /\ closeCalls' = CloseCalls(ch)
    /\ keepAlive' = clearInterval(keepAlive)
    /\ pc' = "done"
    /\ step' = StepRecord("end")
    /\ UNCHANGED <<charEv, tools, toolInputs, toolCount, nEvents, ticks, driverVars, splitVars, agentVars, streamVars, frontVars>>

\* getAgent, runTask or the iterator throws: the catch block
UpstreamThrow ==
    /\ pc = "streaming"
    /\ \E message \in ErrorMessages :
          LET r    == flush(SB(buffer, markdownMode))
              base == Len(charEv) - Len(buffer)
              ch   == send(sendSentences(Chan(closed, out), r.emitted), ErrorFrame(message))
          IN  /\ buffer' = r.buffer
              /\ markdownMode' = r.markdownMode
              /\ Written(Chan(TRUE, ch.out),
                         TextSrc(nEvents + 1, base, r.emitted) \o <<OtherSrc(nEvents + 1)>>)
              /\ ctrl' = CloseCtrl(ch)
              /\ closeCalls' = CloseCalls(ch)
    /\ keepAlive' = clearInterval(keepAlive)
    /\ pc' = "done"
    /\ step' = StepRecord("throw")
    /\ UNCHANGED <<charEv, tools, toolInputs, toolCount, nEvents, ticks, driverVars, splitVars, agentVars, streamVars, frontVars>>

\* The setInterval callback
KeepAliveTick ==
    /\ keepAlive
    /\ ticks < MaxTicks
    /\ ticks' = ticks + 1
    /\ IF ~closed /\ ctrl = "open"
       THEN /\ out' = Append(out, KeepAliveFrame)
            /\ outSrc' = Append(outSrc, OtherSrc(0))
       ELSE UNCHANGED <<out, outSrc>>
    /\ enq' = IF closed THEN enq ELSE Enqueued(enq, ctrl # "open", FALSE)
    /\ UNCHANGED <<sbVars, driverVars, splitVars, pc, closed, tools, toolInputs,
                   toolCount, keepAlive, ctrl, nEvents, charEv, step, closeCalls, agentVars, streamVars, frontVars>>

\* The client goes away: the stream is cancelled, and enqueue and close
\* throw from then on
ClientDisconnect ==
    /\ ctrl = "open"
    /\ ctrl' = "cancelled"
    /\ UNCHANGED <<sbVars, driverVars, splitVars, pc, closed, tools, toolInputs,
                   toolCount, keepAlive, out, nEvents, ticks, traceVars, agentVars, streamVars, frontVars>>

Next ==
    \/ OnText
    \/ OnToolUse
    \/ OnToolUseInput
    \/ OnToolUseApproved
    \/ OnToolUseResult
    \/ OnToolUseError
    \/ OnCompleted
    \/ UpstreamEnd
    \/ UpstreamThrow
    \/ KeepAliveTick
    \/ ClientDisconnect

Spec == Init /\ [][Next]_vars

---------------------------------------------------------------------------
(* Properties of the orchestrator                                          *)

TerminalFrames == {i \in DOMAIN out : out[i].category \in TerminalCategories}

\* C1: when the request is over and the orchestrator has closed the
\* transport, the stream carries exactly one terminal frame, a complete or
\* an error.
C1_ExactlyOneTerminalFrame ==
    (pc = "done" /\ ctrl = "closed") => Cardinality(TerminalFrames) = 1

\* C2: a complete or error frame is the last data frame of its stream, and
\* the transport is closed by the step that writes it.
C2_TerminalFrameIsLast ==
    \A i \in TerminalFrames :
        /\ ctrl = "closed"
        /\ \A j \in DOMAIN out : j > i => out[j].category \notin DataCategories

\* What flush() has to hand over from the instance a terminal step found
HeldText(s) ==
    LET remaining == trim(s.buffer)
    IN  IF remaining # <<>> /\ (s.markdownMode \/ ~isTransitionOnlyText(remaining))
        THEN remaining ELSE <<>>

TerminalSteps == {"completed", "end", "throw"}

\* C3: at a completed event, at the end of the upstream and in the catch
\* block, on a transport that still takes writes, the text held in the
\* SentenceBuffer that is no transition text is written as an
\* assistant_text frame, before the complete or error frame the step
\* writes, and nothing stays in the buffer.
C3_TerminalStepsFlushFirst ==
    (step.kind \in TerminalSteps /\ step.writable /\ HeldText(step) # <<>>)
        => /\ Len(out) > step.outLen
           /\ out[step.outLen + 1] = TextFrame(HeldText(step))
           /\ \A i \in TerminalFrames : i <= step.outLen \/ i = step.outLen + 2
           /\ step.kind # "end" => (step.outLen + 2) \in TerminalFrames
           /\ buffer = <<>>

\* C3 witness: the upstream threw while a partial sentence was buffered.
C3_Witness ==
    /\ step.kind = "throw"
    /\ step.writable
    /\ HeldText(step) = <<"Y","o">>
    /\ Len(out) = step.outLen + 2

DataFrames == {i \in DOMAIN out : out[i].category \in DataCategories}

\* The earliest and the latest upstream event a frame comes from: for an
\* assistant_text frame the events that delivered its first and its last
\* character, for any other frame the event processed when it was written.
MinCause(i) ==
    IF out[i].category = "assistant_text" THEN charEv[outSrc[i].lo] ELSE outSrc[i].ev

MaxCause(i) ==
    IF out[i].category = "assistant_text" THEN charEv[outSrc[i].hi] ELSE outSrc[i].ev

\* C4 as claimed: every frame that comes from an upstream event A, the
\* assistant_text frames carrying A's text included, is written before
\* every frame that comes from a later event B.
C4_FramesInCauseOrder ==
    \A i \in DataFrames, j \in DataFrames : i < j => MaxCause(i) <= MinCause(j)

\* C4 as amended: frames are written in the order in which the events
\* that made the orchestrator write them were processed, and the
\* assistant_text frames carry the upstream text in arrival order; no
\* frame comes from an event later than the one that wrote it.
C4_FramesInProcessingOrder ==
    \A i \in DataFrames, j \in DataFrames :
        /\ MaxCause(i) <= outSrc[i].ev
        /\ i < j => outSrc[i].ev <= outSrc[j].ev
        /\ (i < j /\ out[i].category = "assistant_text" /\ out[j].category = "assistant_text")
              => outSrc[i].hi < outSrc[j].lo

\* C4 witness: text of an earlier event was held back by the
\* SentenceBuffer and written after the tool_start frame of a later event.
C4_Witness ==
    \E i \in DataFrames, j \in DataFrames :
        /\ i < j
        /\ out[i].category = "tool_start"
        /\ out[j].category = "assistant_text"
        /\ MaxCause(j) < outSrc[i].ev

\* The messages simplifyToolError can return
SimplifiedMessages ==
    { <<"S","o","u","r","c","e"," ","n","o","t"," ","s","u","p","p","o","r","t","e","d">>, <<"R","e","t","r","y","i","n","g"," ","w","i","t","h"," ","a","d","j","u","s","t","e","d"," ","p","a","r","a","m","e","t","e","r","s">>, <<"R","e","q","u","e","s","t"," ","t","i","m","e","d"," ","o","u","t",","," ","r","e","t","r","y","i","n","g">>,
      <<"T","o","o"," ","m","a","n","y"," ","r","e","q","u","e","s","t","s">>, <<"P","a","g","e"," ","n","o","t"," ","f","o","u","n","d">>, <<"A","c","c","e","s","s"," ","d","e","n","i","e","d">>, <<"A","u","t","h","o","r","i","z","a","t","i","o","n"," ","r","e","q","u","i","r","e","d">>,
      <<"A","n"," ","e","r","r","o","r"," ","o","c","c","u","r","r","e","d",","," ","r","e","t","r","y","i","n","g">> }

\* The frames of out written while the event of the last step was processed
StepFrames == {i \in DOMAIN out : i > step.outLen /\ outSrc[i].ev = nEvents /\ out[i].category \in DataCategories}

\* A tool_error frame was written before the last step
ToolErrorBefore ==
    step.kind # "none" /\ \E i \in 1..step.outLen : out[i].category = "tool_error"

\* C11: a tool_use_error event processed on a transport that takes writes
\* writes one tool_error frame that carries one of the simplified messages
\* and not the raw error text, and leaves the stream open and the loop
\* running; the events processed after a tool error are forwarded as
\* before: an approved, result or error event and a completed event write
\* their frame, and a text delta in Markdown mode is written through.
C11_ToolErrorNotFatal ==
    /\ (step.kind = "tool_use_error" /\ step.writable)
          => /\ Cardinality(StepFrames) = 1
             /\ out[step.outLen + 1].category = "tool_error"
             /\ out[step.outLen + 1].message \in SimplifiedMessages \ ToolErrors
             /\ pc = "streaming"
             /\ keepAlive
             /\ ~closed
             /\ ctrl # "closed"
             /\ closeCalls = 0
    /\ (ToolErrorBefore /\ step.writable)
          => /\ step.kind = "tool_use_approved"
                   => \E i \in StepFrames : out[i].category = "tool_start"
             /\ step.kind = "tool_use_result"
                   => \E i \in StepFrames : out[i].category = "tool_complete"
             /\ step.kind = "tool_use_error"
                   => \E i \in StepFrames : out[i].category = "tool_error"
             /\ step.kind = "completed"
                   => \E i \in StepFrames : out[i].category = "complete"
             /\ (step.kind = "text" /\ step.markdownMode)
                   => \E i \in StepFrames : out[i].category = "assistant_text"

\* C11 witness: after a tool_error frame the stream is still open and a
\* later tool result was forwarded as a tool_complete frame.
C11_Witness ==
    /\ ctrl = "open"
    /\ pc = "streaming"
    /\ step.kind = "tool_use_result"
    /\ ToolErrorBefore
    /\ out[Len(out)].category = "tool_complete"

\* C13: once a controller.enqueue has thrown, the orchestrator is marked
\* closed and makes no further enqueue, of a data frame or of a keepalive.
C13_NoEnqueueAfterFailure ==
    enq.failed => (closed /\ enq.late = 0)

\* C14 as claimed: controller.close() is called at most once, and it has
\* been called once the request is over.
C14_CloseExactlyOnce ==
    /\ closeCalls <= 1
    /\ pc = "done" => closeCalls = 1

\* C14 as amended: controller.close() is called at most once and only by
\* the step that ends the request; when the request is over it has been
\* called exactly once, unless an enqueue made by send() has thrown (the
\* client is gone and the orchestrator has marked itself closed), in which
\* case it is not called at all.
C14_CloseOnceUnlessMarkedClosed ==
    /\ closeCalls <= 1
    /\ pc = "streaming" => closeCalls = 0
    /\ pc = "done" => closeCalls = (IF enq.sendFailed THEN 0 ELSE 1)
    /\ pc = "done" => (closed /\ ~keepAlive /\ ctrl # "open")

\* C14 witness: a request that ended after the client had gone and a write
\* had failed, without a call of controller.close().
C14_Witness ==
    /\ pc = "done"
    /\ enq.sendFailed
    /\ closeCalls = 0
    /\ ctrl = "cancelled"

\* C18: a tool_start frame is written only by the step that processes a
\* tool_use_approved event; the step that processes a tool_use or a
\* tool_use_input event writes no frame (after it the stream has grown by
\* keepalive comments at most).
C18_ToolStartOnlyOnApproval ==
    step.kind # "none"
        => /\ (\E i \in DOMAIN out : i > step.outLen /\ out[i].category = "tool_start")
                 => step.kind = "tool_use_approved"
           /\ step.kind \in {"tool_use", "tool_use_input"}
                 => \A i \in DOMAIN out : i > step.outLen => out[i].category = "keepalive"

\* C18 witness: a tool_use, a tool_use_input and a tool_use_approved event
\* were processed and the one frame of the stream is the tool_start frame.
C18_Witness ==
    /\ nEvents = 3
    /\ step.kind = "tool_use_approved"
    /\ "t1" \in DOMAIN tools
    /\ toolInputs["t1"] # <<>>
    /\ Len(out) = 1
    /\ out[1].category = "tool_start"
    /\ out[1].displayName = <<"W","e","b"," ","S","e","a","r","c","h",":"," ","a","b">>

---------------------------------------------------------------------------
(* Properties of the classifier                                            *)

\* The transition prefixes, in lower case
TransitionPrefixes ==
    { <<"i","'","l","l"," ","h","e","l","p"," ","y","o","u"," ","r","e","s","e","a","r","c","h">>, <<"i","'","l","l"," ","h","e","l","p"," ","y","o","u"," ","f","i","n","d">>, <<"i","'","l","l"," ","s","e","a","r","c","h">>,
      <<"i","'","l","l"," ","t","r","y">>, <<"i","'","l","l"," ","l","o","o","k">>, <<"i","'","l","l"," ","c","h","e","c","k">>,
      <<"i","'","l","l"," ","g","a","t","h","e","r">>, <<"i","'","l","l"," ","s","t","a","r","t">>, <<"l","e","t"," ","m","e"," ","s","e","a","r","c","h">>,
      <<"l","e","t"," ","m","e"," ","t","r","y">>, <<"l","e","t"," ","m","e"," ","l","o","o","k">>, <<"l","e","t"," ","m","e"," ","c","h","e","c","k">>,
      <<"l","e","t"," ","m","e"," ","f","i","n","d">>, <<"l","e","t"," ","m","e"," ","g","a","t","h","e","r">>, <<"l","e","t"," ","m","e"," ","g","e","t">>,
      <<"l","e","t"," ","m","e"," ","c","o","r","r","e","c","t">>, <<"l","e","t"," ","m","e"," ","f","i","x">>, <<"l","e","t"," ","m","e"," ","a","l","s","o">>,
      <<"l","e","t"," ","m","e"," ","s","c","r","a","p","e">>, <<"n","o","w"," ","l","e","t"," ","m","e">>, <<"n","o","w"," ","i","'","l","l">>,
      <<"n","o","w"," ","i"," ","w","i","l","l">>, <<"f","i","r","s","t",","," ","i","'","l","l">>, <<"f","i","r","s","t"," ","i","'","l","l">>,
      <<"f","i","r","s","t",","," ","l","e","t"," ","m","e">>, <<"f","i","r","s","t"," ","l","e","t"," ","m","e">>, <<"n","e","x","t",","," ","i","'","l","l">>,
      <<"n","e","x","t"," ","i","'","l","l">>, <<"n","e","x","t",","," ","l","e","t"," ","m","e">>, <<"n","e","x","t"," ","l","e","t"," ","m","e">>,
      <<"i"," ","f","o","u","n","d"," ","s","o","m","e">>, <<"i"," ","f","o","u","n","d"," ","s","e","v","e","r","a","l">>, <<"i"," ","f","o","u","n","d"," ","m","u","l","t","i","p","l","e">>,
      <<"i"," ","f","o","u","n","d"," ","t","h","e"," ","f","o","l","l","o","w","i","n","g">>, <<"i"," ","f","o","u","n","d"," ","i","n","i","t","i","a","l">>, <<"i"," ","c","a","n"," ","s","e","e">>,
      <<"i"," ","n","e","e","d"," ","t","o">>, <<"s","e","a","r","c","h","i","n","g"," ","f","o","r">>, <<"l","o","o","k","i","n","g"," ","f","o","r">>,
      <<"c","h","e","c","k","i","n","g">>, <<"g","a","t","h","e","r","i","n","g">>, <<"f","e","t","c","h","i","n","g">>,
      <<"g","r","e","a","t","!"," ","l","e","t"," ","m","e">>, <<"g","r","e","a","t","!"," ","i","'","l","l">>, <<"g","r","e","a","t","!"," ","n","o","w">>,
      <<"g","r","e","a","t","!"," ","i"," ","f","o","u","n","d">> }

\* s without its leading white space
RECURSIVE DropLeadingWS(_)
DropLeadingWS(s) ==
    IF s # <<>> /\ Head(s) \in WS THEN DropLeadingWS(Tail(s)) ELSE s

\* C10: isTransitionOnlyText(text) is true exactly when text is empty or
\* white space only, or text after its leading white space begins, in any
\* letter case, with one of the transition prefixes; it is true of "" and
\* of "Let me search for that.", false of "John Smith was born in 1990.".
C10_TransitionOnlyExactly ==
    verdict.done
        => /\ verdict.value <=>
                 \/ \A i \in 1..Len(fullText) : fullText[i] \in WS
                 \/ \E p \in TransitionPrefixes :
                       LET body == toLowerCase(DropLeadingWS(fullText))
                       IN  Len(p) <= Len(body) /\ SubSeq(body, 1, Len(p)) = p
           /\ fullText = <<>> => verdict.value
           /\ fullText = <<"L","e","t"," ","m","e"," ","s","e","a","r","c","h"," ","f","o","r"," ","t","h","a","t",".">> => verdict.value
           /\ fullText = <<"J","o","h","n"," ","S","m","i","t","h"," ","w","a","s"," ","b","o","r","n"," ","i","n"," ","1","9","9","0",".">> => ~verdict.value

\* C10 witness: a padded, upper-case text with the optional comma left out
\* was classified as a transition sentence.
C10_Witness ==
    /\ verdict.done
    /\ verdict.value
    /\ fullText = <<"\n">> \o <<"F","I","R","S","T"," ","I","'","L","L"," ","x",".">>

---------------------------------------------------------------------------
(* getAgent (server.ts, api/research.ts) under concurrent requests         *)
(*                                                                         *)
(* Each request calls getAgent() once.  The function runs without          *)
(* interruption between two awaits, so a call is at one of its awaits      *)
(* while the other calls take their steps.                                 *)

MaxCallers == 3

Callers == 1..MaxCallers

NoInits == [ctx |-> 0, agents |-> 0, regs |-> 0, registered |-> {}]

InitAgent ==
    /\ AtRest
    /\ NoFront
    /\ NoStreams
    /\ agent = 0
    /\ callers = [r \in Callers |-> [pc |-> "idle", made |-> 0, got |-> 0]]
    /\ inits = NoInits
    /\ envSet \in BOOLEAN

\* getAgent(): if (agent) return agent; else up to await loadEnvFile()
getAgent_Call(r) ==
    /\ callers[r].pc = "idle"
    /\ callers' = IF agent # 0
                  THEN [callers EXCEPT ![r].pc = "returned", ![r].got = agent]
                  ELSE [callers EXCEPT ![r].pc = "loadEnv"]
    /\ UNCHANGED <<agent, inits, envSet, oneVars, streamVars, frontVars>>

\* loadEnvFile() is done: getRequiredEnv twice, which throws when a key is
\* not set, then up to await createZypherContext()
getAgent_Env(r) ==
    /\ callers[r].pc = "loadEnv"
    /\ IF envSet
       THEN /\ callers' = [callers EXCEPT ![r].pc = "ctx"]
            /\ inits' = [inits EXCEPT !.ctx = @ + 1]
       ELSE /\ callers' = [callers EXCEPT ![r].pc = "threw"]
            /\ UNCHANGED inits
    /\ UNCHANGED <<agent, envSet, oneVars, streamVars, frontVars>>

\* createZypherContext() is done: agent = new ZypherAgent(...), then up to
\* await agent.mcp.registerServer(...); or it has rejected
getAgent_Construct(r) ==
    /\ callers[r].pc = "ctx"
    /\ \E ok \in BOOLEAN :
          IF ok
          THEN /\ agent' = inits.agents + 1
               /\ inits' = [inits EXCEPT !.agents = @ + 1, !.regs = @ + 1]
               /\ callers' = [callers EXCEPT ![r].pc = "register", ![r].made = inits.agents + 1]
          ELSE /\ callers' = [callers EXCEPT ![r].pc = "threw"]
               /\ UNCHANGED <<agent, inits>>
    /\ UNCHANGED <<envSet, oneVars, streamVars, frontVars>>

\* registerServer() is done: return agent, the module variable; or it has
\* rejected, and agent stays set
getAgent_Registered(r) ==
    /\ callers[r].pc = "register"
    /\ \E ok \in BOOLEAN :
          IF ok
          THEN /\ inits' = [inits EXCEPT !.registered = @ \cup {callers[r].made}]
               /\ callers' = [callers EXCEPT ![r].pc = "returned", ![r].got = agent]
          ELSE /\ callers' = [callers EXCEPT ![r].pc = "threw"]
               /\ UNCHANGED inits
    /\ UNCHANGED <<agent, envSet, oneVars, streamVars, frontVars>>

NextAgent ==
    \E r \in Callers :
        \/ getAgent_Call(r)
        \/ getAgent_Env(r)
        \/ getAgent_Construct(r)
        \/ getAgent_Registered(r)

SpecAgent == InitAgent /\ [][NextAgent]_vars

\* C15: whatever the interleaving of the requests, the context is created,
\* the agent constructed and the tool server registered at most once.
C15_InitialisedAtMostOnce ==
    /\ inits.ctx <= 1
    /\ inits.agents <= 1
    /\ inits.regs <= 1

---------------------------------------------------------------------------
(* Requests as values                                                      *)
(*                                                                         *)
(* The closure state of one ReadableStream.start call as a record, and the *)
(* handler as operators on it: for runs with two requests at a time, and   *)
(* for upstream scenarios other than those Spec draws its events from.     *)
(* Every step taken for a request is kept in its history.                  *)

\* let closed = false; const tools, toolInputs = new Map(); let toolCount = 0;
\* the keepAlive timer; new SentenceBuffer(...); the controller of the stream
NewStream ==
    [pc |-> "streaming", closed |-> FALSE, tools |-> <<>>, toolInputs |-> <<>>,
     toolCount |-> 0, keepAlive |-> TRUE, buffer |-> <<>>, markdownMode |-> FALSE,
     ctrl |-> "open", out |-> <<>>]

\* The upstream events
TextEvent(content) == [type |-> "text", content |-> content]

ToolUse(id, name) == [type |-> "tool_use", toolUseId |-> id, toolName |-> name]

ToolUseInput(id, partialInput) ==
    [type |-> "tool_use_input", toolUseId |-> id, partialInput |-> partialInput]

ToolUseApproved(id, name) == [type |-> "tool_use_approved", toolUseId |-> id, toolName |-> name]

ToolUseResult(id) == [type |-> "tool_use_result", toolUseId |-> id]

ToolUseError(id, error) == [type |-> "tool_use_error", toolUseId |-> id, error |-> error]

Completed == [type |-> "completed"]

\* The other steps of a request: the upstream ends or throws, the timer
\* fires, the client goes away
UpstreamEnded == [type |-> "end"]

UpstreamThrew(message) == [type |-> "throw", message |-> message]

TimerFired == [type |-> "keepalive"]

ClientGone == [type |-> "cancel"]

\* send(evt)
sendOn(s, evt) ==
    IF s.closed THEN s
    ELSE IF s.ctrl = "open" THEN [s EXCEPT !.out = Append(@, evt)]
    ELSE [s EXCEPT !.closed = TRUE]

\* The SentenceBuffer callback, for each invocation of one call in turn
RECURSIVE sendSentencesOn(_, _)
sendSentencesOn(s, es) ==
    IF es = <<>> THEN s
    ELSE sendSentencesOn(sendOn(s, TextFrame(Head(es).text)), Tail(es))

\* close()
closeOn(s) ==
    IF ~s.closed
    THEN [s EXCEPT !.ctrl = IF @ = "open" THEN "closed" ELSE @, !.closed = TRUE]
    ELSE s

\* buffer.add(text) and buffer.flush(), with the frames their callbacks send
addOn(s, text) ==
    LET r == add(SB(s.buffer, s.markdownMode), text)
    IN  sendSentencesOn([s EXCEPT !.buffer = r.buffer, !.markdownMode = r.markdownMode],
                        r.emitted)

flushOn(s) ==
    LET r == flush(SB(s.buffer, s.markdownMode))
    IN  sendSentencesOn([s EXCEPT !.buffer = r.buffer, !.markdownMode = r.markdownMode],
                        r.emitted)

\* The accumulated input is replaced by the piece that arrives
appendInput_Overwrite(current, partialInput) == partialInput

\* toolInputs.set(e.toolUseId, current + e.partialInput)
appendInput(current, partialInput) == current \o partialInput

\* One iteration of the for-await loop: switch (e.type)
onEvent(s, e) ==
    CASE e.type = "text" ->
            IF e.content # <<>> THEN addOn(s, e.content) ELSE s
      [] e.type = "tool_use" ->
            IF e.toolUseId # "" /\ e.toolName # <<>>
            THEN [s EXCEPT !.toolCount = @ + 1,
                           !.tools = MapSet(@, e.toolUseId, e.toolName),
                           !.toolInputs = MapSet(@, e.toolUseId, <<>>)]
            ELSE s
      [] e.type = "tool_use_input" ->
            IF e.toolUseId # "" /\ e.partialInput # <<>>
            THEN LET current == MapGetOrEmpty(s.toolInputs, e.toolUseId)
                 IN  [s EXCEPT !.toolInputs =
                                   MapSet(@, e.toolUseId, appendInput(current, e.partialInput))]
            ELSE s
      [] e.type = "tool_use_approved" ->
            IF e.toolUseId # "" /\ e.toolName # <<>>
            THEN LET input       == MapGetOrEmpty(s.toolInputs, e.toolUseId)
                     displayName == buildToolDisplayWithDetail(e.toolName, input)
                 IN  sendOn(s, ToolStartFrame(e.toolUseId, e.toolName, displayName))
            ELSE s
      [] e.type = "tool_use_result" ->
            IF e.toolUseId # ""
            THEN [sendOn(s, ToolCompleteFrame(e.toolUseId))
                     EXCEPT !.tools = MapDelete(@, e.toolUseId),
                            !.toolInputs = MapDelete(@, e.toolUseId)]
            ELSE s
      [] e.type = "tool_use_error" ->
            IF e.toolUseId # ""
            THEN [sendOn(s, ToolErrorFrame(e.toolUseId, simplifyToolError(e.error)))
                     EXCEPT !.tools = MapDelete(@, e.toolUseId),
                            !.toolInputs = MapDelete(@, e.toolUseId)]
            ELSE s
      [] e.type = "completed" ->
            sendOn(flushOn(s), CompleteFrame(s.toolCount))
      [] OTHER -> s

\* After the loop: clearInterval, buffer.flush(), close()
onEnd(s) ==
    [closeOn(flushOn([s EXCEPT !.keepAlive = FALSE])) EXCEPT !.pc = "done"]

\* The catch block: clearInterval, buffer.flush(), send(error), close()
onThrow(s, message) ==
    [closeOn(sendOn(flushOn([s EXCEPT !.keepAlive = FALSE]), ErrorFrame(message)))
        EXCEPT !.pc = "done"]

\* The setInterval callback
onKeepAlive(s) ==
    IF ~s.closed /\ s.ctrl = "open" THEN [s EXCEPT !.out = Append(@, KeepAliveFrame)] ELSE s

\* The client cancels the stream
onCancel(s) == [s EXCEPT !.ctrl = "cancelled"]

\* One step of a request
Step(s, st) ==
    CASE st.type = "end" -> onEnd(s)
      [] st.type = "throw" -> onThrow(s, st.message)
      [] st.type = "keepalive" -> onKeepAlive(s)
      [] st.type = "cancel" -> onCancel(s)
      [] OTHER -> onEvent(s, st)

\* The state of a request that took the steps of h on its own, from s
RECURSIVE Replay(_, _)
Replay(s, h) == IF h = <<>> THEN s ELSE Replay(Step(s, Head(h)), Tail(h))

\* The closure state the handler of request r works on, declared at module
\* level: one state for all requests
SharedState(rs, r) == rs["r1"]

\* The closure state the handler of request r works on: the variables
\* declared inside its own start(controller)
OwnState(rs, r) == rs[r]

\* Request r takes the step st
Advance(r, st) ==
    /\ reqs' = [reqs EXCEPT ![r] = Step(OwnState(reqs, r), st)]
    /\ hist' = [hist EXCEPT ![r] = Append(@, st)]
    /\ UNCHANGED <<oneVars, agentVars, frontVars>>

\* The upstream of r delivers one more event
Deliver(r) ==
    /\ reqs[r].pc = "streaming"
    /\ feed[r].left > 0
    /\ \E e \in feed[r].events : Advance(r, e)
    /\ feed' = [feed EXCEPT ![r].left = @ - 1]

\* The upstream of r is done
Finish(r) ==
    /\ reqs[r].pc = "streaming"
    /\ Advance(r, UpstreamEnded)
    /\ UNCHANGED feed

\* getAgent, runTask or the upstream of r throws
Fail(r) ==
    /\ reqs[r].pc = "streaming"
    /\ \E message \in ErrorMessages : Advance(r, UpstreamThrew(message))
    /\ UNCHANGED feed

\* The keepAlive timer of r fires
KeepAlive(r) ==
    /\ reqs[r].keepAlive
    /\ feed[r].ticks > 0
    /\ Advance(r, TimerFired)
    /\ feed' = [feed EXCEPT ![r].ticks = @ - 1]

\* The client of r goes away
Cancel(r) ==
    /\ reqs[r].ctrl = "open"
    /\ feed[r].cancels
    /\ Advance(r, ClientGone)
    /\ UNCHANGED feed

NextStreams ==
    \/ \E r \in DOMAIN reqs : Deliver(r)
    \/ \E r \in DOMAIN reqs : Finish(r)
    \/ \E r \in DOMAIN reqs : Fail(r)
    \/ \E r \in DOMAIN reqs : KeepAlive(r)
    \/ \E r \in DOMAIN reqs : Cancel(r)

\* Two requests at a time
MaxFeed == 3

Requests == {"r1", "r2"}

\* What the upstream of either request may deliver: both name their tool
\* call "t1"
StreamEvents ==
    { TextEvent(<<"Y","o">>),
      ToolUse("t1", <<"m","c","p","_","_","f","i","r","e","c","r","a","w","l","_","_","f","i","r","e","c","r","a","w","l","_","s","e","a","r","c","h">>),
      ToolUseInput("t1", <<"{","\"","q","u","e","r","y","\"",":","\"","a","b","\"","}">>),
      ToolUseApproved("t1", <<"m","c","p","_","_","f","i","r","e","c","r","a","w","l","_","_","f","i","r","e","c","r","a","w","l","_","s","e","a","r","c","h">>) }

InitStreams ==
    /\ AtRest
    /\ NoFront
    /\ NoAgent
    /\ reqs = [r \in Requests |-> NewStream]
    /\ hist = [r \in Requests |-> <<>>]
    /\ \E k \in 0..MaxFeed :
          feed = [r \in Requests |->
                     [events |-> StreamEvents,
                      left |-> IF r = "r1" THEN k ELSE MaxFeed - k,
                      ticks |-> IF r = "r1" THEN 1 ELSE 0, cancels |-> r = "r1"]]

SpecStreams == InitStreams /\ [][NextStreams]_vars

---------------------------------------------------------------------------
(* One request, one upstream scenario                                      *)

MaxToolEvents == 5

MaxAuthEvents == 3

MaxSilentTicks == 3

\* The whole life of a tool call, its input in two pieces
ToolScenario ==
    [events |-> { ToolUse("t1", <<"m","c","p","_","_","f","i","r","e","c","r","a","w","l","_","_","f","i","r","e","c","r","a","w","l","_","s","e","a","r","c","h">>),
                  ToolUseInput("t1", <<"{","\"","q","u","e","r","y","\"",":","\"","a">>),
                  ToolUseInput("t1", <<"b","\"","}">>),
                  ToolUseApproved("t1", <<"m","c","p","_","_","f","i","r","e","c","r","a","w","l","_","_","f","i","r","e","c","r","a","w","l","_","s","e","a","r","c","h">>),
                  ToolUseResult("t1"),
                  ToolUseError("t1", <<"R","e","q","u","e","s","t"," ","t","i","m","e","d"," ","o","u","t"," ","a","f","t","e","r"," ","3","0","s">>) },
     left |-> MaxToolEvents, ticks |-> 0, cancels |-> FALSE]

\* The upstream's API key is refused while it answers
AuthScenario ==
    [events |-> { ToolUseError("t1", <<"4","0","1"," ","A","u","t","h","e","n","t","i","c","a","t","i","o","n"," ","f","a","i","l","e","d",":"," ","i","n","v","a","l","i","d"," ","x","-","a","p","i","-","k","e","y">>),
                  ToolUseError("t1", <<"R","e","q","u","e","s","t"," ","t","i","m","e","d"," ","o","u","t"," ","a","f","t","e","r"," ","3","0","s">>),
                  TextEvent(<<"a","."," ","b","."," ">>),
                  ToolUseApproved("t1", <<"m","c","p","_","_","f","i","r","e","c","r","a","w","l","_","_","f","i","r","e","c","r","a","w","l","_","s","e","a","r","c","h">>),
                  Completed },
     left |-> MaxAuthEvents, ticks |-> 0, cancels |-> TRUE]

\* The upstream never says anything
SilentScenario ==
    [events |-> {}, left |-> 0, ticks |-> MaxSilentTicks, cancels |-> TRUE]

Scenarios == {ToolScenario, AuthScenario, SilentScenario}

InitOne ==
    /\ AtRest
    /\ NoFront
    /\ NoAgent
    /\ reqs = [r \in {"r1"} |-> NewStream]
    /\ hist = [r \in {"r1"} |-> <<>>]
    /\ \E scenario \in Scenarios : feed = [r \in {"r1"} |-> scenario]

SpecOne == InitOne /\ [][NextStreams]_vars

\* The legacy handler's test for an authentication failure in the text of
\* an error
isAuthenticationError(error) ==
    LET errorMsg == toLowerCase(error)
    IN  \/ Includes(errorMsg, <<"a","u","t","h","e","n","t","i","c","a","t","i","o","n">>)
        \/ Includes(errorMsg, <<"a","p","i","-","k","e","y">>)
        \/ Includes(errorMsg, <<"i","n","v","a","l","i","d"," ","x","-","a","p","i","-","k","e","y">>)
        \/ Includes(errorMsg, <<"4","0","1">>)

\* The step i of history h reports a fatal error
FatalAt(h, i) ==
    \/ h[i].type = "throw"
    \/ h[i].type = "tool_use_error" /\ isAuthenticationError(h[i].error)

\* C12: a fatal error reported by the upstream, an authentication failure
\* recognised by its error text included, ends the request: the step that
\* processes it flushes the sentence buffer, leaves an error frame as the
\* last frame (when the client is still there) and the stream closed, and
\* nothing is written for any later upstream event.
C12_FatalErrorClosesStream ==
    \A r \in DOMAIN reqs :
        \A i \in 1..Len(hist[r]) :
            FatalAt(hist[r], i)
               => LET before == Replay(NewStream, SubSeq(hist[r], 1, i - 1))
                      at     == Step(before, hist[r][i])
                  IN  /\ at.buffer = <<>>
                      /\ at.closed
                      /\ at.ctrl # "open"
                      /\ (~before.closed /\ before.ctrl = "open")
                            => at.out[Len(at.out)].category = "error"
                      /\ reqs[r].out = at.out

\* Milliseconds between two firings of the keepAlive timer
KeepAliveInterval == 15000

\* The legacy handler's ceiling for a conversational task, in milliseconds
overallTimeout == 30000

\* Time gone by in a request, read off the firings of its keepAlive timer
Elapsed(h) == KeepAliveInterval * Cardinality({i \in 1..Len(h) : h[i].type = "keepalive"})

\* C17: a request whose upstream has neither completed nor failed when the
\* wall-clock ceiling has gone by is closed by the orchestrator, with a
\* timeout error frame for a client that is still there: no request is
\* still streaming, its stream open, after the ceiling.
C17_TimeoutClosesStream ==
    \A r \in DOMAIN reqs :
        (/\ reqs[r].pc = "streaming"
         /\ \A i \in 1..Len(hist[r]) : hist[r][i].type # "completed"
         /\ Elapsed(hist[r]) > overallTimeout)
           => /\ reqs[r].closed
              /\ reqs[r].ctrl # "open"
              /\ reqs[r].ctrl = "closed"
                    => \E j \in DOMAIN reqs[r].out : reqs[r].out[j].category = "error"

\* The last step before step i of h that is of one of the given types and
\* is about tool call id; 0 when there is none
LastMark(h, i, id, types) ==
    LET marks == {j \in 1..(i - 1) : h[j].type \in types /\ h[j].toolUseId = id}
    IN  IF marks = {} THEN 0 ELSE CHOOSE j \in marks : \A k \in marks : k <= j

\* The partialInput values for tool call id among the steps from..to of h,
\* concatenated in arrival order
RECURSIVE InputsBetween(_, _, _, _)
InputsBetween(h, from, to, id) ==
    IF from > to THEN <<>>
    ELSE (IF h[from].type = "tool_use_input" /\ h[from].toolUseId = id
          THEN h[from].partialInput ELSE <<>>)
         \o InputsBetween(h, from + 1, to, id)

\* The step request r has just taken is a tool_use_approved event whose
\* tool_start frame reached the stream
StartWritten(r) ==
    /\ hist[r] # <<>>
    /\ hist[r][Len(hist[r])].type = "tool_use_approved"
    /\ ~reqs[r].closed
    /\ reqs[r].ctrl = "open"

\* The frame request r has just written
StartFrame(r) == reqs[r].out[Len(reqs[r].out)]

\* The tool_start frame just written carries the display name made of the
\* inputs for its tool call that arrived after the last step of the given
\* types
DisplayOfInputsSince(r, types) ==
    LET h  == hist[r]
        i  == Len(h)
        id == h[i].toolUseId
        I  == InputsBetween(h, LastMark(h, i, id, types) + 1, i - 1, id)
    IN  StartFrame(r) =
           ToolStartFrame(id, h[i].toolName, buildToolDisplayWithDetail(h[i].toolName, I))

\* C19 as claimed: the displayName of the tool_start frame for invocation X
\* is buildToolDisplayWithDetail(toolName, I), I being the concatenation in
\* arrival order of the partialInput values received for X since its
\* tool_use event.
C19_DisplayOfInputsSinceToolUse ==
    \A r \in DOMAIN reqs :
        (/\ StartWritten(r)
         /\ LastMark(hist[r], Len(hist[r]), hist[r][Len(hist[r])].toolUseId, {"tool_use"}) > 0)
           => DisplayOfInputsSince(r, {"tool_use"})

\* C19, amended: I is the concatenation in arrival order of the
\* partialInput values received for X since the latest tool_use,
\* tool_use_result or tool_use_error event for X, or since the start of the
\* request when there was none.
C19_DisplayOfInputsSinceReset ==
    \A r \in DOMAIN reqs :
        StartWritten(r)
           => DisplayOfInputsSince(r, {"tool_use", "tool_use_result", "tool_use_error"})

\* The input of a search arrived in two pieces after a failed first attempt
\* and the tool_start frame shows the query
C19_Witness ==
    /\ DOMAIN reqs = {"r1"}
    /\ Len(hist["r1"]) = 5
    /\ hist["r1"][1].type = "tool_use"
    /\ hist["r1"][2].type = "tool_use_error"
    /\ hist["r1"][3].type = "tool_use_input"
    /\ hist["r1"][4].type = "tool_use_input"
    /\ hist["r1"][5].type = "tool_use_approved"
    /\ reqs["r1"].out[2] =
          ToolStartFrame("t1", <<"m","c","p","_","_","f","i","r","e","c","r","a","w","l","_","_","f","i","r","e","c","r","a","w","l","_","s","e","a","r","c","h">>, <<"W","e","b"," ","S","e","a","r","c","h",":"," ","a","b">>)

\* Tool call id is in flight after the steps of h: a tool_use event for it
\* was processed and no tool_use_result or tool_use_error for it since
InFlight(h, id) ==
    LET j == LastMark(h, Len(h) + 1, id, {"tool_use", "tool_use_result", "tool_use_error"})
    IN  j > 0 /\ h[j].type = "tool_use"

\* C20: the name map and the accumulated-input map of a request hold an
\* entry for id X only while X is in flight; after a result or an error for
\* X nothing is kept for X.
C20_ToolStateOnlyInFlight ==
    \A r \in DOMAIN reqs :
        \A id \in DOMAIN reqs[r].tools \cup DOMAIN reqs[r].toolInputs :
            InFlight(hist[r], id)

---------------------------------------------------------------------------
(* The request front: validation, classification, prompt                   *)

\* /^(hi|hello|hey|thanks?|yes|no|ok|help)[\s!.,]*$/i
Greetings == {<<"h","i">>, <<"h","e","l","l","o">>, <<"h","e","y">>, <<"t","h","a","n","k">>, <<"t","h","a","n","k","s">>, <<"y","e","s">>, <<"n","o">>, <<"o","k">>, <<"h","e","l","p">>}

IsGreeting(q) ==
    \E w \in Greetings :
        /\ PrefixCI(w, q)
        /\ \A i \in (Len(w) + 1)..Len(q) : q[i] \in WS \cup {"!", ".", ","}

\* /^(who are you|what can you do)/i
IsSelfQuestion(q) == PrefixCI(<<"w","h","o"," ","a","r","e"," ","y","o","u">>, q) \/ PrefixCI(<<"w","h","a","t"," ","c","a","n"," ","y","o","u"," ","d","o">>, q)

\* /(research|find|search|tell me about|who is|information about)/i
ResearchWords ==
    {<<"r","e","s","e","a","r","c","h">>, <<"f","i","n","d">>, <<"s","e","a","r","c","h">>, <<"t","e","l","l"," ","m","e"," ","a","b","o","u","t">>, <<"w","h","o"," ","i","s">>, <<"i","n","f","o","r","m","a","t","i","o","n"," ","a","b","o","u","t">>}

HasResearchWord(q) == \E w \in ResearchWords : Includes(toLowerCase(q), w)

\* q[from..to] is not empty and all its characters are in set
Run(q, from, to, set) == from <= to /\ \A x \in from..to : q[x] \in set

\* /[A-Z][a-z]+(\s*\([A-Za-z]+\))?\s+[A-Z][a-z]+/ : a capitalised word, an
\* optional parenthesised word, white space, a capitalised word; m is where
\* the white space begins
LooksLikeName(q) ==
    \E i \in 1..Len(q), j \in 1..Len(q), m \in 1..Len(q), n \in 1..Len(q) :
        /\ q[i] \in UpperChars
        /\ Run(q, i + 1, j, LowerChars)
        /\ \/ m = j + 1
           \/ \E a \in (j + 1)..(m - 1) :
                 /\ \A x \in (j + 1)..(a - 1) : q[x] \in WS
                 /\ q[a] = "("
                 /\ Run(q, a + 1, m - 2, UpperChars \cup LowerChars)
                 /\ q[m - 1] = ")"
        /\ Run(q, m, n, WS)
        /\ n + 2 <= Len(q)
        /\ q[n + 1] \in UpperChars
        /\ q[n + 2] \in LowerChars

isResearchQuery(query) ==
    LET q == trim(query)
    IN  IF IsGreeting(q) THEN FALSE
        ELSE IF IsSelfQuestion(q) THEN FALSE
        ELSE IF HasResearchWord(q) THEN TRUE
        ELSE IF LooksLikeName(q) THEN TRUE
        ELSE FALSE

\* The two prompt templates
ChatPrompt(query) ==
    <<"Y","o","u"," ","a","r","e"," ","a"," ","f","r","i","e","n","d","l","y"," ","A","I"," ","a","s","s","i","s","t","a","n","t","."," ","U","s","e","r"," ","s","a","i","d",":"," ","\"">> \o query
       \o <<"\"","."," ","R","e","s","p","o","n","d"," ","i","n"," ","1","-","2"," ","s","e","n","t","e","n","c","e","s","."," ","D","o"," ","N","O","T"," ","u","s","e"," ","t","o","o","l","s",".">>

ResearchPrompt(query) ==
    <<"R","e","s","e","a","r","c","h"," ","c","o","m","p","r","e","h","e","n","s","i","v","e"," ","i","n","f","o","r","m","a","t","i","o","n"," ","a","b","o","u","t"," ">> \o query
       \o <<".","\n","\n","G","a","t","h","e","r",":"," ","n","a","m","e",","," ","l","o","c","a","t","i","o","n",","," ","p","r","o","f","e","s","s","i","o","n","a","l"," ","h","i","s","t","o","r","y",","," ","e","d","u","c","a","t","i","o","n",","," ","n","o","t","a","b","l","e"," ","f","a","c","t","s",".","\n","U","s","e"," ","w","e","b"," ","s","e","a","r","c","h"," ","t","o","o","l","s","."," ","C","r","o","s","s","-","r","e","f","e","r","e","n","c","e"," ","s","o","u","r","c","e","s",".","\n","\n","I","M","P","O","R","T","A","N","T"," ","R","U","L","E","S",":","\n","1","."," ","O","u","t","p","u","t"," ","O","N","L","Y"," ","t","h","e"," ","f","i","n","a","l"," ","s","t","r","u","c","t","u","r","e","d"," ","s","u","m","m","a","r","y"," ","i","n"," ","M","a","r","k","d","o","w","n"," ","f","o","r","m","a","t",".","\n","2","."," ","D","o"," ","N","O","T"," ","o","u","t","p","u","t"," ","t","h","i","n","k","i","n","g"," ","p","r","o","c","e","s","s"," ","l","i","k","e"," ","\"","L","e","t"," ","m","e"," ","s","e","a","r","c","h",".",".",".","\"",","," ","\"","I","'","l","l"," ","t","r","y",".",".",".","\"",","," ","\"","I"," ","f","o","u","n","d",".",".",".","\"",".","\n","3","."," ","O","n","l","y"," ","i","n","c","l","u","d","e"," ","V","E","R","I","F","I","E","D"," ","i","n","f","o","r","m","a","t","i","o","n"," ","t","h","a","t"," ","m","a","t","c","h","e","s"," ","t","h","e"," ","p","e","r","s","o","n","'","s"," ","n","a","m","e"," ","e","x","a","c","t","l","y",".","\n","4","."," ","I","f"," ","y","o","u"," ","f","i","n","d"," ","m","u","l","t","i","p","l","e"," ","p","e","o","p","l","e"," ","w","i","t","h"," ","s","i","m","i","l","a","r"," ","n","a","m","e","s",","," ","c","l","e","a","r","l","y"," ","s","t","a","t","e"," ","t","h","i","s"," ","a","n","d"," ","a","s","k"," ","f","o","r"," ","c","l","a","r","i","f","i","c","a","t","i","o","n",".","\n","5","."," ","D","o"," ","N","O","T"," ","g","u","e","s","s"," ","o","r"," ","a","s","s","u","m","e"," ","a","f","f","i","l","i","a","t","i","o","n","s"," ","w","i","t","h","o","u","t"," ","e","v","i","d","e","n","c","e",".","\n","\n","B","e","g","i","n"," ","r","e","s","e","a","r","c","h"," ","a","n","d"," ","o","u","t","p","u","t"," ","o","n","l","y"," ","t","h","e"," ","f","i","n","a","l"," ","s","u","m","m","a","r","y",".">>

createTask(query, isResearch) ==
    IF ~isResearch THEN ChatPrompt(query) ELSE ResearchPrompt(query)

\* What handleRequest answers
Response(status, streaming, isResearch, task) ==
    [pc |-> "responded", status |-> status, streaming |-> streaming,
     isResearch |-> isResearch, task |-> task]

\* POST /api/research with the given personName: the 400 of the check, the
\* 500 of the TypeError personName.trim raises for a value that is not a
\* string, or the event stream
Respond(personName) ==
    IF Falsy(personName) THEN Response(400, FALSE, FALSE, <<>>)
    ELSE IF personName.t # "string" THEN Response(500, FALSE, FALSE, <<>>)
    ELSE LET isResearch == isResearchQuery(personName.v)
         IN  Response(200, TRUE, isResearch, createTask(personName.v, isResearch))

MaxHttpEvents == 2

\* The personName of the request body
FirstNames == {<<"J","a","n","e">>, <<"B","o">>}

Initials == {<<"Q",".">>, <<"R",".">>}

LastNames == {<<"P","u","b","l","i","c">>, <<"L","i">>}

NamesWithInitial ==
    {f \o <<" ">> \o i \o <<" ">> \o l : f \in FirstNames, i \in Initials, l \in LastNames}

PersonNames ==
    {Undefined, Null, Str(<<>>), Num(0), Num(42), Bool(FALSE), Bool(TRUE), Obj,
     Str(<<"h","i">>), Str(<<"T","h","a","n","k","s","!">>), Str(<<"J","o","h","n"," ","S","m","i","t","h">>), Str(<<"J","o","h","n"," ","(","J","a","c","k",")"," ","S","m","i","t","h">>),
     Str(<<"w","h","o"," ","i","s"," ","b","o">>), Str(<<"b","o">>)}
       \cup {Str(name) : name \in NamesWithInitial}

\* What the upstream of the request may do, whatever the prompt says
HttpScenario ==
    [events |-> { TextEvent(<<"Y","o">>),
                  ToolUse("t1", <<"m","c","p","_","_","f","i","r","e","c","r","a","w","l","_","_","f","i","r","e","c","r","a","w","l","_","s","e","a","r","c","h">>),
                  ToolUseApproved("t1", <<"m","c","p","_","_","f","i","r","e","c","r","a","w","l","_","_","f","i","r","e","c","r","a","w","l","_","s","e","a","r","c","h">>),
                  Completed },
     left |-> MaxHttpEvents, ticks |-> 0, cancels |-> FALSE]

InitHttp ==
    /\ AtRest
    /\ NoAgent
    /\ NoStreams
    /\ client = <<>>
    /\ call = <<>>
    /\ NoLegacy
    /\ \E personName \in PersonNames : http = [pc |-> "received", personName |-> personName]

\* handleRequest for POST /api/research: the response, and the stream it
\* starts when it answers with one
handleRequest ==
    /\ http.pc = "received"
    /\ LET response == Respond(http.personName)
       IN  /\ http' = response @@ http
           /\ IF response.streaming
              THEN /\ reqs' = [r \in {"r1"} |-> NewStream]
                   /\ hist' = [r \in {"r1"} |-> <<>>]
                   /\ feed' = [r \in {"r1"} |-> HttpScenario]
              ELSE UNCHANGED streamVars
    /\ UNCHANGED <<oneVars, agentVars, client, call, legacy>>

NextHttp ==
    \/ handleRequest
    \/ \E r \in DOMAIN reqs : Deliver(r)
    \/ \E r \in DOMAIN reqs : Finish(r)
    \/ \E r \in DOMAIN reqs : Fail(r)

SpecHttp == InitHttp /\ [][NextHttp]_vars

\* C21: a request whose body has a missing or non-string personName is
\* answered with a 4xx response that is not a stream; no stream is opened
\* for it and the upstream agent is not invoked.
C21_InvalidNameRejected ==
    (http.pc = "responded" /\ http.personName.t # "string")
       => /\ http.status \in 400..499
          /\ ~http.streaming
          /\ reqs = <<>>

\* The prompt tells the upstream not to use tools
ExcludesTools(task) ==
    /\ Includes(task, <<"D","o"," ","N","O","T"," ","u","s","e"," ","t","o","o","l","s">>)
    /\ ~Includes(task, <<"U","s","e"," ","w","e","b"," ","s","e","a","r","c","h"," ","t","o","o","l","s">>)

\* C22: for a request classified conversational the prompt excludes tool
\* usage and no tool_start frame is written to its stream, whatever the
\* upstream produces.
C22_NoToolStartWhenConversational ==
    (http.pc = "responded" /\ http.streaming /\ ~http.isResearch)
       => /\ ExcludesTools(http.task)
          /\ \A r \in DOMAIN reqs :
                \A i \in DOMAIN reqs[r].out : reqs[r].out[i].category # "tool_start"

\* C23: a query made of a capitalised first name, a one-letter middle
\* initial with a period and a capitalised last name, as "Jane Q. Public",
\* is classified research and gets the research prompt.
C23_NameWithInitialIsResearch ==
    (/\ http.pc = "responded"
     /\ http.personName.t = "string"
     /\ http.personName.v \in NamesWithInitial)
       => /\ http.isResearch
          /\ http.task = ResearchPrompt(http.personName.v)

---------------------------------------------------------------------------
(* The client: reader loop and message of one turn                         *)

\* Characters outside ASCII are named by their code points, bytes outside
\* ASCII by their values
EAcute == "U+00E9"

WarningSign == <<"U+26A0", "U+FE0F">>

\* TextEncoder.encode: UTF-8, two bytes for U+00E9
RECURSIVE encode(_)
encode(text) ==
    IF text = <<>> THEN <<>>
    ELSE IF Len(text) = 1
         THEN (IF text[1] = EAcute THEN <<"0xC3", "0xA9">> ELSE text)
         ELSE LET half == Len(text) \div 2
              IN  encode(SubSeq(text, 1, half)) \o encode(SliceFrom(text, half + 1))

\* A whole number of UTF-8 sequences, decoded
RECURSIVE decodeAll(_)
decodeAll(bytes) ==
    IF Len(bytes) <= 1 THEN bytes
    ELSE IF Len(bytes) = 2
         THEN (IF bytes = <<"0xC3", "0xA9">> THEN <<EAcute>> ELSE bytes)
    ELSE LET mid  == (Len(bytes) + 1) \div 2
             half == IF bytes[mid] = "0xC3" THEN mid - 1 ELSE mid
         IN  decodeAll(SubSeq(bytes, 1, half)) \o decodeAll(SliceFrom(bytes, half + 1))

\* decoder.decode(value, { stream: true }): the bytes of a character that
\* the chunk leaves unfinished wait for the next chunk
decode(pending, value) ==
    LET bytes == pending \o value
    IN  IF bytes # <<>> /\ bytes[Len(bytes)] = "0xC3"
        THEN [text |-> decodeAll(SubSeq(bytes, 1, Len(bytes) - 1)), pending |-> <<"0xC3">>]
        ELSE [text |-> decodeAll(bytes), pending |-> <<>>]

\* JSON.stringify of a string
RECURSIVE JsonEscape(_)
JsonEscape(s) ==
    IF s = <<>> THEN <<>>
    ELSE IF Len(s) = 1
         THEN (CASE s[1] = "\"" -> <<"\\", "\"">>
                 [] s[1] = "\\" -> <<"\\", "\\">>
                 [] s[1] = "\n" -> <<"\\", "n">>
                 [] OTHER -> s)
         ELSE LET half == Len(s) \div 2
              IN  JsonEscape(SubSeq(s, 1, half)) \o JsonEscape(SliceFrom(s, half + 1))

JsonString(s) == <<"\"">> \o JsonEscape(s) \o <<"\"">>

\* Date.now() when the frames are made, and the rounded duration
Now == <<"1">>

Duration == <<"0">>

\* The text of a category and of a tool call id
CategoryText ==
    [assistant_text |-> <<"a","s","s","i","s","t","a","n","t","_","t","e","x","t">>, tool_start |-> <<"t","o","o","l","_","s","t","a","r","t">>,
     tool_complete |-> <<"t","o","o","l","_","c","o","m","p","l","e","t","e">>, tool_error |-> <<"t","o","o","l","_","e","r","r","o","r">>,
     complete |-> <<"c","o","m","p","l","e","t","e">>, error |-> <<"e","r","r","o","r">>]

IdText == [t1 |-> <<"t","1">>, t2 |-> <<"t","2">>]

\* JSON.stringify(createEvent(category, data)): category, timestamp, then
\* the fields of data
stringify(evt) ==
    LET head == <<"{","\"","c","a","t","e","g","o","r","y","\"",":">> \o JsonString(CategoryText[evt.category])
                   \o <<",","\"","t","i","m","e","s","t","a","m","p","\"",":">> \o Now
    IN  CASE evt.category = "assistant_text" ->
                head \o <<",","\"","c","o","n","t","e","n","t","\"",":">> \o JsonString(evt.content) \o <<"}">>
          [] evt.category = "tool_start" ->
                head \o <<",","\"","t","o","o","l","I","d","\"",":">> \o JsonString(IdText[evt.toolId])
                     \o <<",","\"","t","o","o","l","N","a","m","e","\"",":">> \o JsonString(evt.toolName)
                     \o <<",","\"","d","i","s","p","l","a","y","N","a","m","e","\"",":">> \o JsonString(evt.displayName) \o <<"}">>
          [] evt.category = "tool_complete" ->
                head \o <<",","\"","t","o","o","l","I","d","\"",":">> \o JsonString(IdText[evt.toolId]) \o <<"}">>
          [] evt.category = "tool_error" ->
                head \o <<",","\"","t","o","o","l","I","d","\"",":">> \o JsonString(IdText[evt.toolId])
                     \o <<",","\"","m","e","s","s","a","g","e","\"",":">> \o JsonString(evt.message) \o <<"}">>
          [] evt.category = "complete" ->
                head \o <<",","\"","d","u","r","a","t","i","o","n","\"",":">> \o Duration
                     \o <<",","\"","t","o","o","l","s","U","s","e","d","\"",":">> \o DigitText(evt.toolsUsed) \o <<"}">>
          [] evt.category = "error" ->
                head \o <<",","\"","m","e","s","s","a","g","e","\"",":">> \o JsonString(evt.message) \o <<"}">>

\* The bytes the server enqueues for a frame: encoder.encode of the data
\* line of an event, or of the keepalive comment
Enqueue(frame) ==
    IF frame.category = "keepalive" THEN encode(<<":"," ","k","e","e","p","a","l","i","v","e","\n","\n">>)
    ELSE encode(<<"d","a","t","a",":"," ">> \o stringify(frame) \o <<"\n","\n">>)

RECURSIVE WireOf(_)
WireOf(frames) ==
    IF frames = <<>> THEN <<>> ELSE Enqueue(Head(frames)) \o WireOf(Tail(frames))

\* What the server of a turn may send
MaxFrames == 3

ClientFrames ==
    { TextFrame(<<"H","e","l","l","o">>), TextFrame(<<" ","w","o","r","l","d",".">>), TextFrame(<<EAcute, "\n">>),
      CompleteFrame(0), ErrorFrame(<<"b","o","o","m">>), KeepAliveFrame }

ReadErrors == { <<"n","e","t","w","o","r","k"," ","e","r","r","o","r">> }

FramesUpTo(n) == UNION {[1..k -> ClientFrames] : k \in 0..n}

\* JSON.parse(text) as StreamEvent: the event whose JSON text it is, or the
\* SyntaxError
JSONparse(text) ==
    LET evts == {e \in ClientFrames \ {KeepAliveFrame} : stringify(e) = text}
    IN  IF evts = {} THEN [ok |-> FALSE]
        ELSE [ok |-> TRUE, value |-> CHOOSE e \in evts : TRUE]

\* String.prototype.split("\n")
RECURSIVE split(_)
split(s) ==
    LET at == {i \in 1..Len(s) : s[i] = "\n"}
    IN  IF at = {} THEN <<s>>
        ELSE <<SubSeq(s, 1, SetMin(at) - 1)>> \o split(SliceFrom(s, SetMin(at) + 1))

\* The incomplete last line is thrown away
pop_Dropped(lines) == <<>>

\* buffer = lines.pop() || ""
pop(lines) == lines[Len(lines)]

\* The text of the event replaces the text received before
appendText_Replaces(textBuffer, content) == content

\* textBufferRef.current += event.content
appendText(textBuffer, content) == textBuffer \o content

\* The error text alone
errorContent_Alone(textBuffer, message) == WarningSign \o <<" ">> \o message

\* const errorContent = textBufferRef.current ? ... : ...
errorContent(textBuffer, message) ==
    IF textBuffer # <<>> THEN textBuffer \o <<"\n","\n">> \o WarningSign \o <<" ">> \o message
    ELSE WarningSign \o <<" ">> \o message

\* For each frame sent, the place on the wire of the line feed that ends its
\* line
LineEnds(sent) == [k \in 1..Len(sent) |-> Len(WireOf(SubSeq(sent, 1, k))) - 1]

\* The state of a turn after handleSubmit has added the two messages and
\* fetch has answered with a stream; sent, wire, ends and pos: the frames
\* the server sends, their bytes, where their lines end, and the number of
\* bytes read so far
NewClient(sent) ==
    [pc |-> "reading", sent |-> sent, wire |-> WireOf(sent), ends |-> LineEnds(sent),
     pos |-> 0, pending |-> <<>>, buffer |-> <<>>,
     events |-> <<>>, carried |-> FALSE, currentMessageId |-> "assistant",
     textBuffer |-> <<>>, content |-> <<>>, isStreaming |-> TRUE, isLoading |-> TRUE]

handleStreamEvent(c, event) ==
    IF c.currentMessageId = "null" THEN c
    ELSE CASE event.category = "assistant_text" ->
                 IF event.content # <<>>
                 THEN LET text == appendText(c.textBuffer, event.content)
                      IN  [c EXCEPT !.textBuffer = text, !.content = text,
                                    !.isStreaming = TRUE]
                 ELSE c
           [] event.category = "complete" ->
                 [c EXCEPT !.isStreaming = FALSE, !.isLoading = FALSE]
           [] event.category = "error" ->
                 [c EXCEPT !.content = errorContent(c.textBuffer, event.message),
                           !.isStreaming = FALSE, !.isLoading = FALSE]
           [] OTHER -> c

\* for (const line of lines): the lines that begin with "data: " and parse
\* are dispatched
RECURSIVE processLines(_, _)
processLines(c, lines) ==
    IF lines = <<>> THEN c
    ELSE LET line == Head(lines)
             evt  == JSONparse(SliceFrom(line, 7))
         IN  IF OccursAt(line, <<"d","a","t","a",":"," ">>, 1) /\ evt.ok
             THEN processLines([handleStreamEvent(c, evt.value)
                                   EXCEPT !.events = Append(@, evt.value)],
                               Tail(lines))
             ELSE processLines(c, Tail(lines))

\* One round of the reader loop with a chunk value
onChunk(c, value) ==
    LET d     == decode(c.pending, value)
        lines == split(c.buffer \o d.text)
        after == processLines([c EXCEPT !.pos = @ + Len(value), !.pending = d.pending,
                                        !.buffer = pop(lines)],
                              SubSeq(lines, 1, Len(lines) - 1))
    IN  [after EXCEPT !.carried = @ \/ (c.buffer # <<>> /\ Len(after.events) > Len(c.events))]

\* Where the transport may end a chunk: at the end of the response, after a
\* line feed, after a space, after the first byte of a character of two
CutAfter == {"\n", " ", "0xC3"}

CutPoints(wire) == {p \in 1..Len(wire) : p = Len(wire) \/ wire[p] \in CutAfter}

\* The turn as handleSubmit leaves it before the fetch: the two messages
\* added, the answer not yet there
Submitted(sent) == [NewClient(sent) EXCEPT !.pc = "fetching"]

\* The answers that are not ok: the status, and the error member of the
\* JSON body (empty when the body has none or is not JSON)
NotOkResponses ==
    { [status |-> <<"4","2","9">>, error |-> <<>>],
      [status |-> <<"5","0","0">>, error |-> <<"r","a","t","e","_","l","i","m","i","t","_","e","r","r","o","r">>],
      [status |-> <<"5","0","0">>, error |-> <<"Q","u","e","r","y"," ","i","s"," ","r","e","q","u","i","r","e","d">>],
      [status |-> <<"5","0","2">>, error |-> <<>>] }

\* The message of the Error thrown for a response that is not ok
notOkMessage(response) ==
    LET errorMsg == IF response.error # <<>> THEN response.error
                    ELSE <<"S","e","r","v","e","r"," ","e","r","r","o","r",":"," ">> \o response.status
    IN  IF response.status = <<"4","2","9">> \/ Includes(errorMsg, <<"r","a","t","e","_","l","i","m","i","t">>)
        THEN <<"T","o","o"," ","m","a","n","y"," ","r","e","q","u","e","s","t","s","."," ","P","l","e","a","s","e"," ","t","r","y"," ","a","g","a","i","n"," ","i","n"," ","a","b","o","u","t"," ","1"," ","m","i","n","u","t","e",".">>
        ELSE errorMsg

\* The catch of handleSubmit
handleSubmit_catch(c, errMsg) ==
    [c EXCEPT !.content = WarningSign \o <<" ">> \o errMsg, !.isStreaming = FALSE]

\* A finally that does nothing
handleSubmit_finally_Skipped(c) == c

\* The finally of handleSubmit
handleSubmit_finally(c) == [c EXCEPT !.isLoading = FALSE, !.currentMessageId = "null"]

\* fetch resolves with a response that is ok and has a body
ClientFetchOk ==
    /\ client.pc = "fetching"
    /\ client' = [client EXCEPT !.pc = "reading"]
    /\ UNCHANGED <<oneVars, agentVars, streamVars, http, call, legacy>>

\* fetch resolves with a response that is not ok: the throw, the catch and
\* the finally
ClientFetchNotOk ==
    /\ client.pc = "fetching"
    /\ \E response \in NotOkResponses :
          client' = handleSubmit_finally(
                       handleSubmit_catch([client EXCEPT !.pc = "failed"], notOkMessage(response)))
    /\ UNCHANGED <<oneVars, agentVars, streamVars, http, call, legacy>>

\* reader.read() resolves with the next bytes of the response
ClientRead ==
    /\ client.pc = "reading"
    /\ \E p \in CutPoints(client.wire) :
          /\ p > client.pos
          /\ client' = onChunk(client, SubSeq(client.wire, client.pos + 1, p))
    /\ UNCHANGED <<oneVars, agentVars, streamVars, http, call, legacy>>

\* reader.read() resolves with done: the code after the loop and the finally
ClientDone ==
    /\ client.pc = "reading"
    /\ client.pos = Len(client.wire)
    /\ client' = handleSubmit_finally([client EXCEPT !.pc = "done", !.isStreaming = FALSE])
    /\ UNCHANGED <<oneVars, agentVars, streamVars, http, call, legacy>>

\* reader.read() rejects: the catch and the finally
ClientReadFails ==
    /\ client.pc = "reading"
    /\ \E errMsg \in ReadErrors :
          client' = handleSubmit_finally(handleSubmit_catch([client EXCEPT !.pc = "failed"], errMsg))
    /\ UNCHANGED <<oneVars, agentVars, streamVars, http, call, legacy>>

InitClient ==
    /\ AtRest
    /\ NoAgent
    /\ NoStreams
    /\ NoHttp
    /\ call = <<>>
    /\ NoLegacy
    /\ \E sent \in FramesUpTo(MaxFrames) : client = Submitted(sent)

NextClient ==
    \/ ClientFetchOk
    \/ ClientFetchNotOk
    \/ ClientRead
    \/ ClientDone
    \/ ClientReadFails

SpecClient == InitClient /\ [][NextClient]_vars

IsDataFrame(frame) == frame.category # "keepalive"

\* The frames whose line has been read to its end
Arrived(c) == SubSeq(c.sent, 1, Cardinality({k \in DOMAIN c.ends : c.ends[k] <= c.pos}))

\* The bytes read after the last line feed read
Unfinished(c) ==
    LET feeds == {i \in 1..c.pos : c.wire[i] = "\n"}
    IN  SubSeq(c.wire, (IF feeds = {} THEN 0 ELSE SetMax(feeds)) + 1, c.pos)

\* C24: the events dispatched to handleStreamEvent depend on the bytes
\* read, not on the chunks they came in: they are the data frames whose
\* line is complete, one event each and in order, keepalive comments and
\* blank lines giving none, and the unfinished last line is what the line
\* buffer and the decoder carry over.
C24_EventsIndependentOfChunks ==
    client # <<>>
       => /\ client.events = SelectSeq(Arrived(client), IsDataFrame)
          /\ encode(client.buffer) \o client.pending = Unfinished(client)

\* A data line that came in more than one chunk was dispatched, around a
\* keepalive comment
C24_Witness ==
    /\ client # <<>>
    /\ client.pc = "done"
    /\ client.carried
    /\ Len(client.sent) = 3
    /\ client.sent[2] = KeepAliveFrame
    /\ Len(client.events) = 2

\* The contents of the assistant_text events of a sequence, concatenated
RECURSIVE TextOf(_)
TextOf(events) ==
    IF events = <<>> THEN <<>>
    ELSE (IF Head(events).category = "assistant_text" THEN Head(events).content ELSE <<>>)
         \o TextOf(Tail(events))

\* The turn has met no error: no error event, no failed read
NoError(c) ==
    /\ c.pc # "failed"
    /\ \A i \in DOMAIN c.events : c.events[i].category # "error"

\* C25: the content of the assistant message is the concatenation, in
\* arrival order, of the contents of the assistant_text events received,
\* and a complete event leaves the message not streaming and its content
\* as it was.
C25_ContentIsConcatenation ==
    (client # <<>> /\ NoError(client))
       => /\ client.content = TextOf(client.events)
          /\ (client.events # <<>> /\ client.events[Len(client.events)].category = "complete")
                => ~client.isStreaming

\* "Hello", " world." and complete were received
C25_Witness ==
    /\ client # <<>>
    /\ client.pc = "reading"
    /\ client.events = <<TextFrame(<<"H","e","l","l","o">>), TextFrame(<<" ","w","o","r","l","d",".">>), CompleteFrame(0)>>
    /\ client.content = <<"H","e","l","l","o"," ","w","o","r","l","d",".">>
    /\ ~client.isStreaming

\* C26: once a complete event has been processed, the content of the
\* message stays what it was then and the message stays not streaming,
\* whatever assistant_text events follow.
C26_NoContentAfterComplete ==
    (client # <<>> /\ NoError(client))
       => \A i \in DOMAIN client.events :
             client.events[i].category = "complete"
                => /\ client.content = TextOf(SubSeq(client.events, 1, i))
                   /\ ~client.isStreaming

\* C27: an error event leaves as content the text accumulated so far
\* followed by the marked error text, or the marked error text alone when
\* there was none, and leaves the message not streaming.
C27_ErrorKeepsText ==
    (/\ client # <<>>
     /\ client.pc # "failed"
     /\ client.events # <<>>
     /\ client.events[Len(client.events)].category = "error")
       => LET text    == TextOf(client.events)
              message == client.events[Len(client.events)].message
          IN  /\ client.content =
                    IF text = <<>> THEN WarningSign \o <<" ">> \o message
                    ELSE text \o <<"\n","\n">> \o WarningSign \o <<" ">> \o message
              /\ client.textBuffer = text
              /\ ~client.isStreaming

\* An error event came after "Hello"
C27_Witness ==
    /\ client # <<>>
    /\ client.events = <<TextFrame(<<"H","e","l","l","o">>), ErrorFrame(<<"b","o","o","m">>)>>
    /\ client.content = <<"H","e","l","l","o","\n","\n">> \o WarningSign \o <<" ","b","o","o","m">>
    /\ ~client.isStreaming

---------------------------------------------------------------------------
(* The tool utilities on one call (utils/toolUtils.ts)                     *)
(*                                                                         *)
(* call holds the function called and its arguments; the action of the     *)
(* function adds how the call ended.                                       *)

\* The triggers of simplifyToolError in the order of its tests, each row
\* with the message it selects
TriggerTable ==
    << [triggers |-> {<<"n","o","t"," ","c","u","r","r","e","n","t","l","y"," ","s","u","p","p","o","r","t","e","d">>}, message |-> <<"S","o","u","r","c","e"," ","n","o","t"," ","s","u","p","p","o","r","t","e","d">>],
       [triggers |-> {<<"p","a","r","a","m","e","t","e","r"," ","v","a","l","i","d","a","t","i","o","n">>}, message |-> <<"R","e","t","r","y","i","n","g"," ","w","i","t","h"," ","a","d","j","u","s","t","e","d"," ","p","a","r","a","m","e","t","e","r","s">>],
       [triggers |-> {<<"t","i","m","e","o","u","t">>, <<"t","i","m","e","d"," ","o","u","t">>}, message |-> <<"R","e","q","u","e","s","t"," ","t","i","m","e","d"," ","o","u","t",","," ","r","e","t","r","y","i","n","g">>],
       [triggers |-> {<<"r","a","t","e"," ","l","i","m","i","t">>}, message |-> <<"T","o","o"," ","m","a","n","y"," ","r","e","q","u","e","s","t","s">>],
       [triggers |-> {<<"n","o","t"," ","f","o","u","n","d">>, <<"4","0","4">>}, message |-> <<"P","a","g","e"," ","n","o","t"," ","f","o","u","n","d">>],
       [triggers |-> {<<"f","o","r","b","i","d","d","e","n">>, <<"4","0","3">>}, message |-> <<"A","c","c","e","s","s"," ","d","e","n","i","e","d">>],
       [triggers |-> {<<"u","n","a","u","t","h","o","r","i","z","e","d">>, <<"4","0","1">>}, message |-> <<"A","u","t","h","o","r","i","z","a","t","i","o","n"," ","r","e","q","u","i","r","e","d">>] >>

DefaultMessage == <<"A","n"," ","e","r","r","o","r"," ","o","c","c","u","r","r","e","d",","," ","r","e","t","r","y","i","n","g">>

Triggers == UNION {TriggerTable[i].triggers : i \in DOMAIN TriggerTable}

\* The rows of the table one of whose triggers occurs in the lower-cased text
RowsHit(error) ==
    {i \in DOMAIN TriggerTable :
        \E t \in TriggerTable[i].triggers : Includes(toLowerCase(error), t)}

\* The message of the first row hit, the default message if none is
MessageOfFirstTrigger(error) ==
    IF RowsHit(error) = {} THEN DefaultMessage
    ELSE TriggerTable[SetMin(RowsHit(error))].message

\* Error texts: up to two fragments, each a trigger, a near miss or
\* nothing, inside a sentence, as written and in capitals; and the fixed
\* messages themselves
ErrorFragments == Triggers \cup {<<>>, <<"t","i","m","e"," ","o","u","t">>, <<"4","0">>}

ErrorTexts ==
    LET mixed == {<<"E","r","r","o","r",":"," ">> \o a \o <<" ","/"," ">> \o b \o <<".">> : a \in ErrorFragments, b \in ErrorFragments}
    IN  mixed \cup {toUpperCase(s) : s \in mixed} \cup SimplifiedMessages
          \cup {<<"R","e","q","u","e","s","t"," ","T","I","M","E","D"," ","O","U","T"," ","a","f","t","e","r"," ","3","0","s">>, <<>>}

\* The tool names of TOOL_DISPLAY_NAMES
DisplayedTools ==
    {<<"m","c","p","_","_","f","i","r","e","c","r","a","w","l","_","_","f","i","r","e","c","r","a","w","l","_","s","e","a","r","c","h">>, <<"m","c","p","_","_","f","i","r","e","c","r","a","w","l","_","_","f","i","r","e","c","r","a","w","l","_","s","c","r","a","p","e">>,
     <<"m","c","p","_","_","f","i","r","e","c","r","a","w","l","_","_","f","i","r","e","c","r","a","w","l","_","c","r","a","w","l">>, <<"m","c","p","_","_","f","i","r","e","c","r","a","w","l","_","_","f","i","r","e","c","r","a","w","l","_","m","a","p">>}

\* The values a field of a tool input holds: a text short and long, a url,
\* a text that is no url, the empty string, null, numbers, an array, an
\* object
FieldTexts ==
    {<<"\"","A","d","a"," ","L","o","v","e","l","a","c","e","\"">>, <<"\"","A","d","a"," ","L","o","v","e","l","a","c","e"," ","m","a","t","h","e","m","a","t","i","c","i","a","n"," ","L","o","n","d","o","n"," ","1","8","4","3","\"">>, <<"\"","h","t","t","p","s",":","/","/","w","w","w",".","g","i","t","h","u","b",".","c","o","m","/","a","d","a","\"">>,
     <<"\"","n","o","t"," ","a"," ","u","r","l","\"">>, <<"\"","\"">>, <<"n","u","l","l">>, <<"5">>, <<"0">>, <<"[","]">>, <<"{","}">>}

\* Tool inputs as JSON: a value that is no object, and an object with one
\* field
JsonTexts ==
    {<<"n","u","l","l">>, <<"5">>, <<"[","]">>, <<"{","}">>}
      \cup {<<"{","\"">> \o k \o <<"\"",":">> \o v \o <<"}">> : k \in {<<"q","u","e","r","y">>, <<"u","r","l">>, <<"l","i","m","i","t">>}, v \in FieldTexts}

\* The tool inputs: every JSON text whole and cut short at every length,
\* the empty string among them
RawInputs == UNION {{SubSeq(s, 1, n) : n \in 0..Len(s)} : s \in JsonTexts}

InitTools ==
    /\ AtRest
    /\ NoAgent
    /\ NoStreams
    /\ NoHttp
    /\ client = <<>>
    /\ NoLegacy
    /\ \/ \E e \in ErrorTexts :
              call = [fn |-> "simplifyToolError", error |-> e, done |-> FALSE]
       \/ \E name \in DisplayedTools, raw \in RawInputs :
              call = [fn |-> "extractToolDetail", toolName |-> name, input |-> raw, done |-> FALSE]

SimplifyToolError ==
    /\ call.fn = "simplifyToolError"
    /\ ~call.done
    /\ call' = [done |-> TRUE, ret |-> simplifyToolError(call.error)] @@ call
    /\ UNCHANGED <<oneVars, agentVars, streamVars, http, client, legacy>>

ExtractToolDetail ==
    /\ call.fn = "extractToolDetail"
    /\ ~call.done
    /\ call' = [done |-> TRUE, ret |-> extractToolDetailOutcome(call.toolName, call.input)] @@ call
    /\ UNCHANGED <<oneVars, agentVars, streamVars, http, client, legacy>>

NextTools == SimplifyToolError \/ ExtractToolDetail

SpecTools == InitTools /\ [][NextTools]_vars

Simplified == call.fn = "simplifyToolError" /\ call.done

\* C28 as stated: for every input string simplifyToolError returns one of
\* its fixed messages and never the raw text, the message being that of
\* the first trigger, in the order of the tests, that occurs in the
\* lower-cased input, and the default message when none occurs.
C28_FixedMessageNeverRaw ==
    Simplified =>
        /\ call.ret \in SimplifiedMessages
        /\ call.ret # call.error
        /\ call.ret = MessageOfFirstTrigger(call.error)

\* C28: for every input string simplifyToolError returns one of its fixed
\* messages, the message of the first trigger, in the order of the tests,
\* that occurs in the lower-cased input, and the default message when none
\* occurs; the result is the raw text only when the raw text is that fixed
\* message itself.  An input with "timed out" and no earlier trigger gives
\* the timeout message.
C28_FixedMessageByFirstTrigger ==
    Simplified =>
        /\ call.ret \in SimplifiedMessages
        /\ call.ret = MessageOfFirstTrigger(call.error)
        /\ call.ret = call.error => call.error \in SimplifiedMessages
        /\ (/\ Includes(toLowerCase(call.error), <<"t","i","m","e","d"," ","o","u","t">>)
            /\ \A i \in 1..2 : i \notin RowsHit(call.error))
              => call.ret = <<"R","e","q","u","e","s","t"," ","t","i","m","e","d"," ","o","u","t",","," ","r","e","t","r","y","i","n","g">>

\* C28 witness: an error text in capitals with "timed out" after "404" has
\* been simplified to the timeout message.
C28_Witness ==
    /\ Simplified
    /\ call.error = toUpperCase(<<"E","r","r","o","r",":"," ","4","0","4"," ","/"," ","t","i","m","e","d"," ","o","u","t",".">>)
    /\ call.ret = <<"R","e","q","u","e","s","t"," ","t","i","m","e","d"," ","o","u","t",","," ","r","e","t","r","y","i","n","g">>

Extracted == call.fn = "extractToolDetail" /\ call.done

\* The parsed input has the field the tool name makes extractToolDetail
\* look at
HasRelevantField(toolName, input) ==
    LET parsed == JsonParse(input)
        has(k) == parsed.value.t = "object" /\ "key" \in DOMAIN parsed.value /\ parsed.value.key = k
    IN  /\ parsed.ok
        /\ \/ Includes(toolName, <<"s","e","a","r","c","h">>) /\ has(<<"q","u","e","r","y">>)
           \/ (Includes(toolName, <<"s","c","r","a","p","e">>) \/ Includes(toolName, <<"c","r","a","w","l">>)) /\ has(<<"u","r","l">>)

\* C29: extractToolDetail never throws, whatever the tool name and the raw
\* input: the empty input, a JSON text cut short, a JSON null, number or
\* array, a url field that is no url; it returns the empty string whenever
\* the input does not parse or has no relevant field.
C29_ExtractNeverThrows ==
    Extracted =>
        /\ ~call.ret.thrown
        /\ call.ret.returned
        /\ (~JsonParse(call.input).ok \/ ~HasRelevantField(call.toolName, call.input))
              => call.ret.value = <<>>

\* C29 witness: the input null given to the search tool, on which reading
\* parsed.query throws inside the try block, has returned the empty string.
C29_Witness ==
    /\ Extracted
    /\ call.toolName = <<"m","c","p","_","_","f","i","r","e","c","r","a","w","l","_","_","f","i","r","e","c","r","a","w","l","_","s","e","a","r","c","h">>
    /\ call.input = <<"n","u","l","l">>
    /\ extractToolDetailTry(call.toolName, call.input).thrown
    /\ call.ret = Returned(<<>>)

---------------------------------------------------------------------------
(* Prose in front of a Markdown marker                                     *)

\* The last call was an add() in prose mode whose buffer has a Markdown
\* marker after its first character and does not start with one
MarkerInsideProse ==
    /\ last.op = "add"
    /\ ~last.pre.markdownMode
    /\ ~isMarkdownStart(last.pre.buffer \o last.text)
    /\ MarkdownIndex(last.pre.buffer \o last.text) > 1

\* The positions before the marker that hold a character other than white
\* space and lie in no text the call handed to onSentence
NotHandedOver ==
    LET buf == last.pre.buffer \o last.text
        r   == add(last.pre, last.text)
    IN  {i \in 1..(MarkdownIndex(buf) - 1) :
            /\ buf[i] \notin WS
            /\ \A k \in DOMAIN r.emitted : i < r.emitted[k].lo \/ i > r.emitted[k].hi}

\* C30: when add() in prose mode finds a Markdown marker after the first
\* character of the buffer, no prose before the marker is discarded: every
\* character before the marker that is not white space is handed to
\* onSentence by that call, or is still in the buffer for a later flush(),
\* or belongs to a stretch of the text before the marker that is
\* transition-only; this includes the fragment that follows the last
\* complete sentence.
C30_NoProseDiscardedBeforeMarker ==
    MarkerInsideProse =>
        LET buf == last.pre.buffer \o last.text
            p   == MarkdownIndex(buf)
        IN  \A i \in NotHandedOver :
               \/ \E k \in 1..Len(buffer) : OccursAt(buffer, SubSeq(buf, i, i), k)
               \/ \E lo \in 1..i, hi \in i..(p - 1) :
                     isTransitionOnlyText(trim(SubSeq(buf, lo, hi)))

---------------------------------------------------------------------------
(* Deltas and sentence boundaries                                          *)

\* What a new instance hands to onSentence when text is added in one call
\* and the instance is then flushed
InOneAdd(text) ==
    LET a == add(SB(<<>>, FALSE), text)
        f == flush(SB(a.buffer, a.markdownMode))
    IN  Texts(a.emitted) \o Texts(f.emitted)

\* C31: for a text without Markdown marker, the sentences handed over by
\* the add() calls of its deltas and the flush() after them are the ones
\* handed over when the whole text is added in one call and flushed:
\* where the text was cut into deltas makes no difference.
C31_SplitIndependent ==
    (SplitDone /\ MarkdownIndex(fullText) = 0 /\ ~isMarkdownStart(fullText))
        => emitted = InOneAdd(fullText)

\* C31 witness: "Hi. Yo." has been fed in three deltas and flushed, and its
\* two sentences have been handed over.
C31_Witness ==
    /\ SplitDone
    /\ calls = 4
    /\ fullText = <<"H","i","."," ","Y","o",".">>
    /\ emitted = <<<<"H","i",".">>, <<"Y","o",".">>>>

\* The content of the assistant message after the client has handled one
\* assistant_text frame for each text handed to onSentence
RECURSIVE ContentAfter(_, _)
ContentAfter(textBuffer, texts) ==
    IF texts = <<>> THEN textBuffer
    ELSE ContentAfter(appendText(textBuffer, TextFrame(Head(texts)).content), Tail(texts))

\* C32: in prose mode, two sentences that follow each other upstream,
\* separated by white space, are separated by at least one white-space
\* character in the content of the assistant message: where the text of
\* one assistant_text frame ends and the text of the next begins, the
\* content has white space.
C32_SentencesStaySeparated ==
    (SplitDone /\ MarkdownIndex(fullText) = 0 /\ ~isMarkdownStart(fullText))
        => \A i \in 1..(Len(emitted) - 1) :
              LET content == ContentAfter(<<>>, emitted)
                  joint   == Len(ContentAfter(<<>>, SubSeq(emitted, 1, i)))
              IN  content[joint] \in WS \/ content[joint + 1] \in WS

\* C33: a flush() that follows a flush() with no add() in between hands
\* nothing to onSentence and leaves the instance as it was, so the text
\* left in the buffer is handed over once, by the first of the two.
C33_SecondFlushEmitsNothing ==
    (last.op = "flush" /\ last.before = "flush")
        => /\ last.now = <<>>
           /\ SB(buffer, markdownMode) = last.pre

\* C33 witness: add("Yo"), flush(), flush(): "Yo" has been handed over by
\* the first flush() and the second has been made.
C33_Witness ==
    /\ last.op = "flush"
    /\ last.before = "flush"
    /\ calls = 3
    /\ emitted = <<<<"Y","o">>>>

---------------------------------------------------------------------------
(* Tool frames on one stream                                               *)

\* Frame j of out ends a tool call: a tool_complete or tool_error frame
EndsTool(frames, j) == frames[j].category \in {"tool_complete", "tool_error"}

\* C34: every tool_complete or tool_error frame of a stream comes after a
\* tool_start frame of the same stream with the same toolId, and no other
\* tool_complete or tool_error frame for that toolId lies between the two:
\* each tool_start is ended at most once.
C34_ToolEndFollowsItsStart ==
    \A r \in DOMAIN reqs :
        LET frames == reqs[r].out
        IN  \A j \in DOMAIN frames :
               EndsTool(frames, j) =>
                  \E i \in 1..(j - 1) :
                     /\ frames[i].category = "tool_start"
                     /\ frames[i].toolId = frames[j].toolId
                     /\ \A k \in (i + 1)..(j - 1) :
                           ~(EndsTool(frames, k) /\ out[k].toolId = frames[j].toolId)

---------------------------------------------------------------------------
(* The agent a caller of getAgent receives                                 *)

\* C35: an agent returned by getAgent has had its tool server registered:
\* under every interleaving of the callers, and after a registration that
\* failed, registerServer has completed successfully for the agent a
\* returned call holds.
C35_ReturnedAgentIsRegistered ==
    \A r \in Callers :
        callers[r].pc = "returned" => callers[r].got \in inits.registered

---------------------------------------------------------------------------
(* The legacy handler with timers (server.ts 1026-1272)                    *)
(*                                                                         *)
(* The closure state of its ReadableStream.start as the record legacy.     *)
(* The body runs without interruption between two awaits, so the timer     *)
(* callbacks run while it waits for the next upstream event (pc "loop"),   *)
(* in the wait of 100 ms after the loop (pc "wait100") and in the wait of  *)
(* 200 ms before the close (pc "wait200").  Whether the time a callback    *)
(* tests for has passed is left open.                                      *)

MaxLegacyEvents == 2

MaxLegacyTimers == 2

\* The frames that end a request
LegacyTerminal == {"task_complete", "fatal_timeout", "fatal_authentication_error", "fatal_error"}

\* The upstream events: by type, with the text the handler searches
LegacyEvents ==
    { [type |-> "text", message |-> <<"A","d","a">>],
      [type |-> "error", message |-> <<"4","0","1"," ","A","u","t","h","e","n","t","i","c","a","t","i","o","n"," ","f","a","i","l","e","d",":"," ","i","n","v","a","l","i","d"," ","x","-","a","p","i","-","k","e","y">>],
      [type |-> "tool_error", message |-> <<"p","a","r","a","m","e","t","e","r"," ","v","a","l","i","d","a","t","i","o","n"," ","f","a","i","l","e","d">>],
      [type |-> "tool_error", message |-> <<"R","e","q","u","e","s","t"," ","t","i","m","e","d"," ","o","u","t">>] }

\* let streamClosed = false; the three timers; let taskCompleted = false
NewLegacy ==
    [pc |-> "loop", streamClosed |-> FALSE, taskCompleted |-> FALSE, ctrl |-> "open",
     out |-> <<>>, keepAliveTimer |-> TRUE, overallTimeoutTimer |-> TRUE,
     timeoutCheck |-> TRUE, events |-> 0, timers |-> 0,
     step |-> "start", was |-> "open"]

\* safeEnqueue(data): controller.enqueue throws unless the controller is open
safeEnqueue(s, frame) ==
    IF s.streamClosed THEN s
    ELSE IF s.ctrl = "open" THEN [s EXCEPT !.out = Append(@, frame)]
    ELSE [s EXCEPT !.streamClosed = TRUE]

\* safeClose that leaves the stream open
safeClose_LeavesOpen(s) == s

\* safeClose(): controller.close() throws unless the controller is open, and
\* then streamClosed is not set
safeClose(s) ==
    IF s.streamClosed THEN s
    ELSE IF s.ctrl = "open" THEN [s EXCEPT !.ctrl = "closed", !.streamClosed = TRUE]
    ELSE s

\* The step a callback has taken, with the controller as it found it
Stepped(s, name, before) == [s EXCEPT !.step = name, !.was = before.ctrl]

\* One iteration of the for-await loop
LegacyOnEvent ==
    /\ legacy.pc = "loop"
    /\ legacy.events < MaxLegacyEvents
    /\ \E e \in LegacyEvents :
          LET s == [legacy EXCEPT !.events = @ + 1]
          IN  legacy' =
                Stepped(
                  IF e.type \in {"tool_error", "error"}
                  THEN IF isAuthenticationError(e.message)
                       THEN [safeClose([safeEnqueue(s, "fatal_authentication_error")
                                           EXCEPT !.taskCompleted = TRUE])
                                EXCEPT !.pc = "wait100"]
                       ELSE IF Includes(e.message, <<"p","a","r","a","m","e","t","e","r"," ","v","a","l","i","d","a","t","i","o","n"," ","f","a","i","l","e","d">>)
                       THEN safeEnqueue(s, "tool_error_retry")
                       ELSE safeEnqueue(s, "warning")
                  ELSE safeEnqueue(s, "event"),
                  "event", legacy)
    /\ UNCHANGED <<oneVars, agentVars, streamVars, http, client, call>>

\* The iterator is done: up to the wait of 100 ms
LegacyLoopEnd ==
    /\ legacy.pc = "loop"
    /\ legacy' = Stepped([legacy EXCEPT !.pc = "wait100"], "end", legacy)
    /\ UNCHANGED <<oneVars, agentVars, streamVars, http, client, call>>

\* After the wait of 100 ms: the stall check and the overall timeout are
\* cleared, task_complete is sent; up to the wait of 200 ms
LegacyComplete ==
    /\ legacy.pc = "wait100"
    /\ legacy' =
          Stepped(
            safeEnqueue([legacy EXCEPT !.timeoutCheck = FALSE, !.overallTimeoutTimer = FALSE,
                                       !.taskCompleted = TRUE, !.pc = "wait200"],
                        "task_complete"),
            "complete", legacy)
    /\ UNCHANGED <<oneVars, agentVars, streamVars, http, client, call>>

\* After the wait of 200 ms: the keepalive timer is cleared, the stream closed
LegacyClose ==
    /\ legacy.pc = "wait200"
    /\ legacy' = Stepped(safeClose([legacy EXCEPT !.keepAliveTimer = FALSE, !.pc = "done"]),
                         "close", legacy)
    /\ UNCHANGED <<oneVars, agentVars, streamVars, http, client, call>>

\* runTask or the iterator throws: the catch block, which leaves the stall
\* check running
LegacyCatch ==
    /\ legacy.pc = "loop"
    /\ legacy' =
          Stepped(
            safeClose(safeEnqueue([legacy EXCEPT !.keepAliveTimer = FALSE,
                                                 !.overallTimeoutTimer = FALSE,
                                                 !.taskCompleted = TRUE, !.pc = "done"],
                                  "fatal_error")),
            "catch", legacy)
    /\ UNCHANGED <<oneVars, agentVars, streamVars, http, client, call>>

\* The overall-timeout callback
LegacyOverallTimeout ==
    /\ legacy.overallTimeoutTimer
    /\ LET s == [legacy EXCEPT !.overallTimeoutTimer = FALSE]
       IN  legacy' =
             Stepped(IF ~s.taskCompleted /\ ~s.streamClosed
                     THEN safeClose(safeEnqueue(s, "fatal_timeout"))
                     ELSE s,
                     "overall", legacy)
    /\ UNCHANGED <<oneVars, agentVars, streamVars, http, client, call>>

\* The stall-check callback
LegacyStallCheck ==
    /\ legacy.timeoutCheck
    /\ legacy.timers < MaxLegacyTimers
    /\ \E stalled \in BOOLEAN :
          LET s == [legacy EXCEPT !.timers = @ + 1]
          IN  legacy' =
                Stepped(IF s.streamClosed THEN [s EXCEPT !.timeoutCheck = FALSE]
                        ELSE IF stalled THEN safeEnqueue(s, "timeout_warning")
                        ELSE s,
                        "stall", legacy)
    /\ UNCHANGED <<oneVars, agentVars, streamVars, http, client, call>>

\* The keepalive callback
LegacyKeepAlive ==
    /\ legacy.keepAliveTimer
    /\ legacy.timers < MaxLegacyTimers
    /\ \E idle \in BOOLEAN :
          LET s == [legacy EXCEPT !.timers = @ + 1]
          IN  legacy' =
                Stepped(IF s.streamClosed THEN [s EXCEPT !.keepAliveTimer = FALSE]
                        ELSE IF idle THEN safeEnqueue(s, "keepalive")
                        ELSE s,
                        "keepalive", legacy)
    /\ UNCHANGED <<oneVars, agentVars, streamVars, http, client, call>>

\* The client cancels the stream
LegacyCancel ==
    /\ legacy.ctrl = "open"
    /\ legacy' = Stepped([legacy EXCEPT !.ctrl = "cancelled"], "cancel", legacy)
    /\ UNCHANGED <<oneVars, agentVars, streamVars, http, client, call>>

InitLegacy ==
    /\ AtRest
    /\ NoAgent
    /\ NoStreams
    /\ NoHttp
    /\ client = <<>>
    /\ call = <<>>
    /\ legacy = NewLegacy

NextLegacy ==
    \/ LegacyOnEvent
    \/ LegacyLoopEnd
    \/ LegacyComplete
    \/ LegacyClose
    \/ LegacyCatch
    \/ LegacyOverallTimeout
    \/ LegacyStallCheck
    \/ LegacyKeepAlive
    \/ LegacyCancel

SpecLegacy == InitLegacy /\ [][NextLegacy]_vars

\* The terminal frames written
LegacyTerminalFrames == {i \in DOMAIN legacy.out : legacy.out[i] \in LegacyTerminal}

C37_NothingEnqueuedAfterClose ==
    /\ [](pc = "done" => (closed /\ ~keepAlive))
    /\ [][closed => (out' = out /\ enq' = enq)]_vars

\* C37 witness: a request that ended in the catch block after a keepalive
\* had been written: the error frame is the last frame, the stream is closed
\* and the timer is cancelled.
C37_Witness ==
    /\ pc = "done"
    /\ step.kind = "throw"
    /\ ctrl = "closed"
    /\ ~keepAlive
    /\ \E i \in DOMAIN out : out[i] = KeepAliveFrame
    /\ out[Len(out)].category = "error"

\* C38: during one assistant turn no update of the message removes text:
\* in every step of the client, an event dispatched, the end of the stream
\* or a failed read, the content of the message before the step is a
\* prefix of its content after the step.
C38_ContentOnlyGrows ==
    [][(client # <<>> /\ client' # <<>>)
          => /\ Len(client.content) <= Len(client'.content)
             /\ SubSeq(client'.content, 1, Len(client.content)) = client.content]_vars

\* C39: when the response of a submitted request has ended, the stream
\* read to its end with or without a terminal event, an answer that is not
\* ok, or a failed read, the assistant message is not streaming, isLoading
\* is false and the current message id is cleared.
C39_EndedTurnIsReleased ==
    (client # <<>> /\ client.pc \in {"done", "failed"})
       => /\ ~client.isStreaming
          /\ ~client.isLoading
          /\ client.currentMessageId = "null"

\* C39 witness: the answer had status 502 and no JSON body: the turn is
\* over with the warning as content and nothing read.
C39_Witness ==
    /\ client # <<>>
    /\ client.pc = "failed"
    /\ client.pos = 0
    /\ client.content = WarningSign \o <<" ">> \o <<"S","e","r","v","e","r"," ","e","r","r","o","r",":"," ","5","0","2">>
    /\ ~client.isLoading

====
